---- MODULE Spec2Model ----
(***************************************************************************)
(* Model of packages/web-api/src/raw-processor.ts: the normalization of a  *)
(* raw Figma scene tree into AltNode objects (processRawFigmaNodes and     *)
(* the recursive processRawNode), together with the node cache of          *)
(* setup-globals.ts that processRawFigmaNodes populates, and of            *)
(* extractNodesFromFigmaData with the part of the POST /api/convert        *)
(* handler that calls it.                                                  *)
(*                                                                         *)
(* The raw tree is a sequence of node records numbered in document order   *)
(* (depth-first pre-order); field par is the index of the parent node, 0   *)
(* for an entry of the top-level rawNodes array.  JavaScript objects are   *)
(* references: the AltNode built for raw node n lives at altNodes[n], and  *)
(* child lists and parent links hold indices.  An optional JavaScript      *)
(* value is <<>> when undefined and <<v>> when it has the value v.         *)
(***************************************************************************)
EXTENDS Integers, Sequences, FiniteSets, TLC

VARIABLES
  rawNodes,        \* the raw input tree (objects the caller handed in)
  settings,        \* settings object: embedVectors, useColorVariables
  hasFigma,        \* global.figma with _populateNodeCache is installed
  nodeCache,       \* setup-globals.ts nodeCache: Map id -> node object
  nameCounters,    \* Map baseName -> number of nodes named so far
  altNodes,        \* AltNode objects built so far, by raw index
  stack,           \* active processRawNode calls, innermost last
  i,               \* loop index of processRawFigmaNodes over rawNodes
  processedNodes,  \* processedNodes of processRawFigmaNodes
  pc,              \* "start", "run", "done" (resolved), "rejected"
  firstRun,        \* what an earlier call on the same raw objects resolved with
  convert,         \* the POST /api/convert handler: request body and locals
  other            \* a second call of processRawFigmaNodes, suspended

vars == <<rawNodes, settings, hasFigma, nodeCache, nameCounters, altNodes,
          stack, i, processedNodes, pc, firstRun, convert, other>>

\* Largest number of raw nodes (entries of any depth) in one input.
MaxNodes == 3

-----------------------------------------------------------------------------
(* Optional values and JavaScript truthiness                               *)

Undefined == <<>>
Some(v) == <<v>>
Val(o) == o[1]

\* a || d for a numeric optional: undefined and 0 are falsy
OrNum(a, d) == IF a = Undefined \/ a = Some(0) THEN d ELSE Val(a)
\* a || d for a string optional: undefined and "" are falsy
OrStr(a, d) == IF a = Undefined \/ a = Some("") THEN d ELSE Val(a)

Max(a, b) == IF a >= b THEN a ELSE b
Abs(a) == IF a >= 0 THEN a ELSE -a

-----------------------------------------------------------------------------
(* The raw tree                                                            *)

NodeIds == 1..Len(rawNodes)

\* indices, in order, of the entries of the children array of node n
\* (n = 0: of the top-level rawNodes array)
ChildrenIn(nodes, n) ==
  SelectSeq([k \in 1..Len(nodes) |-> k], LAMBDA k: nodes[k].par = n)

Children(n) == ChildrenIn(rawNodes, n)

RECURSIVE AncestorsIn(_, _)
AncestorsIn(nodes, n) ==
  IF nodes[n].par = 0 THEN {}
  ELSE {nodes[n].par} \cup AncestorsIn(nodes, nodes[n].par)

Ancestors(n) == AncestorsIn(rawNodes, n)

-----------------------------------------------------------------------------
(* Strings: String.prototype.trim, Number.prototype.toString, padStart,    *)
(* slice(-6)                                                               *)

RECURSIVE trimStart(_)
trimStart(s) ==
  IF Len(s) > 0 /\ SubSeq(s, 1, 1) = " " THEN trimStart(SubSeq(s, 2, Len(s)))
  ELSE s

RECURSIVE trimEnd(_)
trimEnd(s) ==
  IF Len(s) > 0 /\ SubSeq(s, Len(s), Len(s)) = " "
  THEN trimEnd(SubSeq(s, 1, Len(s) - 1))
  ELSE s

trim(s) == trimEnd(trimStart(s))

Digit(d) == SubSeq("0123456789", d + 1, d + 1)

RECURSIVE toString(_)
toString(n) ==
  IF n < 10 THEN Digit(n) ELSE toString(n \div 10) \o Digit(n % 10)

RECURSIVE padStart(_, _, _)
padStart(s, len, fill) ==
  IF Len(s) >= len THEN s ELSE padStart(fill \o s, len, fill)

sliceLast6(s) == SubSeq(s, Max(1, Len(s) - 5), Len(s))

-----------------------------------------------------------------------------
(* processRawNode, step 2: unique names                                    *)

\* the name taken as it is, not trimmed
baseNameUntrimmed(raw) ==
  IF raw.nameKind = "string" /\ raw.name # "" THEN raw.name ELSE "unnamed"

\* rawNode.name?.trim() || 'unnamed'  (defined when name is a string or absent)
baseName(raw) ==
  IF raw.nameKind = "string" /\ trim(raw.name) # "" THEN trim(raw.name)
  ELSE "unnamed"

\* nameCounters.get(baseName) || 0
CounterGet(counters, b) == IF b \in DOMAIN counters THEN counters[b] ELSE 0

\* nameCounters.set(baseName, count + 1)
CounterSet(counters, b, v) ==
  [k \in DOMAIN counters \cup {b} |-> IF k = b THEN v ELSE counters[k]]

\* the count written without padStart
uniqueNameUnpadded(b, count) ==
  IF count = 0 THEN b ELSE b \o "_" \o toString(count)

\* count === 0 ? baseName : `${baseName}_${count.toString().padStart(2, '0')}`
uniqueName(b, count) ==
  IF count = 0 THEN b ELSE b \o "_" \o padStart(toString(count), 2, "0")

\* rawNode.name.trim is not a function: name is a truthy non-string
NameThrows(raw) == raw.nameKind = "number"

-----------------------------------------------------------------------------
(* processRawNode, steps 3 and 4: position and rotation                    *)

\* raw rotation is counted in quarter turns (units of pi/2 radians), so
\* -rotation * (180 / Math.PI) is -(rotation * 90) degrees
toDegrees(rotation) == -(rotation * 90)

\* parent?.cumulativeRotation || 0, the parent being altNodes[p] or null
ParentCumulativeRotation(alts, p) ==
  IF p = 0 THEN 0 ELSE alts[p].cumulativeRotation

cumulativeRotationOf(raw, alts, p) ==
  ParentCumulativeRotation(alts, p) + toDegrees(raw.rotation)

\* the absolute coordinate kept
absoluteCoordinate(nodes, p, own, axis) == own

\* x (or y) relative to the parent's absoluteBoundingBox, 0 without one
relativeTo(nodes, p, own, axis) ==
  IF p # 0 /\ nodes[p].hasBox
  THEN own - (IF axis = "x" THEN nodes[p].x ELSE nodes[p].y)
  ELSE 0

-----------------------------------------------------------------------------
(* processRawNode, step 6: text                                            *)

WordCharacters ==
  "abcdefghijklmnopqrstuvwxyzABCDEFGHIJKLMNOPQRSTUVWXYZ0123456789_-"

\* .replace(/[^a-zA-Z0-9_-]/g, '')
RECURSIVE replaceNonWord(_)
replaceNonWord(s) ==
  IF s = "" THEN ""
  ELSE LET c == SubSeq(s, 1, 1)
       IN (IF \E k \in 1..Len(WordCharacters) :
                  SubSeq(WordCharacters, k, k) = c
           THEN c ELSE "")
          \o replaceNonWord(SubSeq(s, 2, Len(s)))

\* .toLowerCase() on a string of word characters: the capitals stand at
\* positions 27 to 52 of WordCharacters, 26 after their small letters
RECURSIVE toLowerCase(_)
toLowerCase(s) ==
  IF s = "" THEN ""
  ELSE LET c == SubSeq(s, 1, 1)
           capital == { k \in 27..52 : SubSeq(WordCharacters, k, k) = c }
       IN (IF capital = {} THEN c
           ELSE LET k == CHOOSE k \in capital : TRUE
                IN SubSeq(WordCharacters, k - 26, k - 26))
          \o toLowerCase(SubSeq(s, 2, Len(s)))

\* textNode.name || 'text' (the name is a string or absent here: any other
\* name has thrown at step 2)
segmentNameOf(raw) ==
  IF raw.nameKind = "string" /\ raw.name # "" THEN raw.name ELSE "text"

\* one segment for each side of the first character, when the node has
\* style overrides
createTextSegmentsSplit(raw) ==
  LET whole == [ characters |-> Val(raw.characters),
                 uniqueId |->
                   toLowerCase(replaceNonWord(segmentNameOf(raw))) \o "_span",
                 start |-> 0,
                 end |-> Len(Val(raw.characters)) ]
  IN IF raw.characterStyleOverrides = Undefined THEN <<whole>>
     ELSE << [whole EXCEPT !.end = 1,
                           !.characters = SubSeq(Val(raw.characters), 1, 1)],
             [whole EXCEPT !.start = 1,
                           !.characters =
                              SubSeq(Val(raw.characters), 2,
                                     Len(Val(raw.characters)))] >>

\* createTextSegments(rawNode): a single segment for the entire text (the
\* font fields and the fills of the segment are left out)
createTextSegments(raw) ==
  << [ characters |-> Val(raw.characters),
       uniqueId |->
         toLowerCase(replaceNonWord(segmentNameOf(raw))) \o "_span",
       start |-> 0,
       end |-> Len(Val(raw.characters)) ] >>

\* rawNode.type === 'TEXT' && rawNode.characters
IsText(raw) ==
  raw.type = "TEXT" /\ raw.characters # Undefined /\ raw.characters # Some("")

\* altNode.styledTextSegments after step 6
styledTextSegmentsOf(raw) ==
  IF IsText(raw) THEN Some(createTextSegments(raw)) ELSE Undefined

-----------------------------------------------------------------------------
(* processRawNode, steps 7 and 7.5: fills (the fill objects of altNode are *)
(* the raw node's fill objects)                                            *)

\* processColorVariables on one fill
withColorVariable(fill) ==
  IF fill.type = "SOLID" /\ fill.boundColorId # Undefined
  THEN [fill EXCEPT !.variableColorName =
                       Some("var-" \o sliceLast6(Val(fill.boundColorId)))]
  ELSE fill

\* a box size in tenths: the whole part and the first decimal
InTenths(whole, tenths) == 10 * whole + tenths

\* Math.round of a non-negative number given in tenths: a half rounds up
mathRound(t) == (t + 5) \div 10

\* the remote URL is preferred to the embedded data
withResolvedImageUrlFirst(fill, w, h) ==
  IF fill.type # "IMAGE" THEN fill
  ELSE IF fill.imageUrl # Undefined /\ fill.imageUrl # Some("")
    THEN [fill EXCEPT !.resolvedImageUrl = fill.imageUrl]
  ELSE IF fill.base64Url # Undefined /\ fill.base64Url # Some("")
    THEN [fill EXCEPT !.resolvedImageUrl = fill.base64Url]
  ELSE [fill EXCEPT !.resolvedImageUrl =
          Some("https://placehold.co/"
               \o toString(mathRound(OrNum(w, InTenths(100, 0)))) \o "x"
               \o toString(mathRound(OrNum(h, InTenths(100, 0)))))]

\* image fill resolution on one fill; w and h are altNode.width / height in
\* tenths
withResolvedImage(fill, w, h) ==
  IF fill.type # "IMAGE" THEN fill
  ELSE IF fill.base64Url # Undefined /\ fill.base64Url # Some("")
    THEN [fill EXCEPT !.resolvedImageUrl = fill.base64Url]
  ELSE IF fill.imageUrl # Undefined /\ fill.imageUrl # Some("")
    THEN [fill EXCEPT !.resolvedImageUrl = fill.imageUrl]
  ELSE [fill EXCEPT !.resolvedImageUrl =
          Some("https://placehold.co/"
               \o toString(mathRound(OrNum(w, InTenths(100, 0)))) \o "x"
               \o toString(mathRound(OrNum(h, InTenths(100, 0)))))]

\* the fills of raw node n after steps 7 and 7.5
fillsAfter(raw, useColorVariables) ==
  LET w == IF raw.hasBox THEN Some(InTenths(raw.width, raw.widthTenths))
           ELSE Undefined
      h == IF raw.hasBox THEN Some(InTenths(raw.height, raw.heightTenths))
           ELSE Undefined
  IN [k \in 1..Len(raw.fills) |->
        withResolvedImage(
          IF useColorVariables THEN withColorVariable(raw.fills[k])
          ELSE raw.fills[k], w, h)]

-----------------------------------------------------------------------------
(* processRawNode, step 9: icon detection                                  *)

HasGeometry(raw) == Len(raw.fillGeometry) > 0

\* vector content admitted whatever the size
isLikelyIconLoose(nodes, n) ==
  LET raw == nodes[n]
      kids == ChildrenIn(nodes, n)
      w == InTenths(raw.width, raw.widthTenths)
      h == InTenths(raw.height, raw.heightTenths)
      isSmall == w <= InTenths(48, 0) /\ h <= InTenths(48, 0)
      isSquareish == 2 * Abs(w - h) <= Max(w, h)
      hasVectorContent ==
        \/ raw.type = "VECTOR"
        \/ \E k \in 1..Len(kids): nodes[kids[k]].type = "VECTOR"
  IN /\ raw.hasBox /\ w # 0 /\ h # 0
     /\ (isSmall /\ isSquareish) \/ hasVectorContent

\* isLikelyIcon(altNode); altNode.children still is the raw children array
isLikelyIcon(nodes, n) ==
  LET raw == nodes[n]
      kids == ChildrenIn(nodes, n)
      w == InTenths(raw.width, raw.widthTenths)
      h == InTenths(raw.height, raw.heightTenths)
      isSmall == w <= InTenths(48, 0) /\ h <= InTenths(48, 0)
      isSquareish == 2 * Abs(w - h) <= Max(w, h)
      hasVectorContent ==
        \/ raw.type = "VECTOR"
        \/ \E k \in 1..Len(kids): nodes[kids[k]].type = "VECTOR"
  IN /\ raw.hasBox /\ w # 0 /\ h # 0
     /\ isSmall /\ (isSquareish \/ hasVectorContent)

\* isLikelyIcon reads child.type of a null entry: children.some stops at the
\* first VECTOR child, so it throws when a null entry precedes every VECTOR
isLikelyIconThrows(nodes, n) ==
  LET raw == nodes[n]
      kids == ChildrenIn(nodes, n)
  IN /\ raw.hasBox
     /\ InTenths(raw.width, raw.widthTenths) # 0
     /\ InTenths(raw.height, raw.heightTenths) # 0
     /\ raw.type # "VECTOR"
     /\ \E k \in 1..Len(kids):
          /\ nodes[kids[k]].isNull
          /\ \A j \in 1..(k - 1): nodes[kids[j]].type # "VECTOR"

\* settings.embedVectors as a condition: a settings object that omits the
\* field gives undefined, which is falsy
embedVectorsOf(s) == "embedVectors" \in DOMAIN s /\ s.embedVectors

\* step 9 without the test of settings.embedVectors
canBeFlattenedUngated(nodes, alts, n, p, embedVectors) ==
  \/ nodes[n].type = "VECTOR" /\ HasGeometry(nodes[n])
  \/ /\ ~(p # 0 /\ alts[p].canBeFlattened)
     /\ isLikelyIcon(nodes, n)

\* canBeFlattened as decided by step 9
canBeFlattenedOf(nodes, alts, n, p, embedVectors) ==
  /\ embedVectors
  /\ \/ nodes[n].type = "VECTOR" /\ HasGeometry(nodes[n])
     \/ /\ ~(p # 0 /\ alts[p].canBeFlattened)
        /\ isLikelyIcon(nodes, n)

\* children consumed before are passed over
collectUnconsumed(nodes, n) ==
  SelectSeq(ChildrenIn(nodes, n),
            LAMBDA c: /\ nodes[c].type = "VECTOR" /\ HasGeometry(nodes[c])
                      /\ ~nodes[c].flattenedIntoParent)

\* collectVectorGeometry(rawNode): the VECTOR children that carry geometry
collectVectorGeometry(nodes, n) ==
  SelectSeq(ChildrenIn(nodes, n),
            LAMBDA c: nodes[c].type = "VECTOR" /\ HasGeometry(nodes[c]))

\* step 9.5 reaches collectVectorGeometry
CollectsFromChildren(nodes, alts, n, p, embedVectors) ==
  /\ canBeFlattenedOf(nodes, alts, n, p, embedVectors)
  /\ ~HasGeometry(nodes[n])

\* collectVectorGeometry reads child.type of every entry: a null entry throws
collectVectorGeometryThrows(nodes, n) ==
  \E c \in 1..Len(nodes): nodes[c].par = n /\ nodes[c].isNull

-----------------------------------------------------------------------------
(* processRawNode, step 9.5: vector markup                                 *)

HexDigit(d) == SubSeq("0123456789abcdef", d + 1, d + 1)

\* Number.prototype.toString(16)
RECURSIVE toHex(_)
toHex(n) ==
  IF n < 16 THEN HexDigit(n) ELSE toHex(n \div 16) \o HexDigit(n % 16)

\* Math.round(channel * 255) for a channel given in hundredths (0..100 for
\* 0.0..1.0); Math.round rounds a half up
roundChannel(hundredths) == (2 * 255 * hundredths + 100) \div 200

\* `#${r}${g}${b}`, each channel in two hexadecimal digits
hexColor(color) ==
  "#" \o padStart(toHex(roundChannel(color.r)), 2, "0")
      \o padStart(toHex(roundChannel(color.g)), 2, "0")
      \o padStart(toHex(roundChannel(color.b)), 2, "0")

\* the fill colour is black whatever the fills are
fillColorBlack(fills) == "#000000"

\* fills.find(fill => fill.type === 'SOLID' && fill.visible !== false): the
\* colour of the first such fill when it has one, black otherwise
fillColor(fills) ==
  LET solid == SelectSeq(fills, LAMBDA f : f.type = "SOLID" /\ f.visible)
  IN IF solid # <<>> /\ Head(solid).color # Undefined
     THEN hexColor(Val(Head(solid).color))
     ELSE "#000000"

\* one path element per geometry entry
pathElement(geometry, color) ==
  "<path d=\"" \o geometry.path \o "\" fill=\"" \o color \o "\" fill-rule=\""
    \o (IF geometry.windingRule = "EVENODD" THEN "evenodd" ELSE "nonzero")
    \o "\"/>"

pathElements(raw) ==
  [k \in 1..Len(raw.fillGeometry) |->
     pathElement(raw.fillGeometry[k], fillColor(raw.fills))]

\* Array.prototype.join
RECURSIVE join(_, _)
join(strings, sep) ==
  IF strings = <<>> THEN ""
  ELSE IF Len(strings) = 1 THEN Head(strings)
  ELSE Head(strings) \o sep \o join(Tail(strings), sep)

\* the svg element around the joined paths; w and h are altNode.width and
\* altNode.height, 24 when missing or 0
svgElement(w, h, paths) ==
  LET width == toString(OrNum(w, 24))
      height == toString(OrNum(h, 24))
  IN "<svg width=\"" \o width \o "\" height=\"" \o height
       \o "\" viewBox=\"0 0 " \o width \o " " \o height
       \o "\" fill=\"none\" xmlns=\"http://www.w3.org/2000/svg\">\n  "
       \o join(paths, "\n  ") \o "\n</svg>"

\* generateSVGFromGeometry(rawNode, altNode)
generateSVGFromGeometry(raw, w, h) == svgElement(w, h, pathElements(raw))

RECURSIVE allPaths(_, _)
allPaths(nodes, vectorChildren) ==
  IF vectorChildren = <<>> THEN <<>>
  ELSE pathElements(nodes[Head(vectorChildren)])
         \o allPaths(nodes, Tail(vectorChildren))

\* generateSVGFromChildren(vectorChildren, parentNode)
generateSVGFromChildren(nodes, vectorChildren, w, h) ==
  IF allPaths(nodes, vectorChildren) = <<>> THEN ""
  ELSE svgElement(w, h, allPaths(nodes, vectorChildren))

\* altNode.svg after step 9.5; flattened is altNode.canBeFlattened, which is
\* never true without settings.embedVectors; the sizes written into the
\* markup are whole numbers (box sizes with a decimal occur in the inputs
\* only with embedVectors off)
svgOf(nodes, n, flattened) ==
  LET raw == nodes[n]
      w == IF raw.hasBox THEN Some(raw.width) ELSE Undefined
      h == IF raw.hasBox THEN Some(raw.height) ELSE Undefined
  IN IF ~flattened THEN Undefined
     ELSE IF HasGeometry(raw) THEN Some(generateSVGFromGeometry(raw, w, h))
     ELSE IF collectVectorGeometry(nodes, n) # <<>>
       THEN Some(generateSVGFromChildren(nodes, collectVectorGeometry(nodes, n),
                                         w, h))
     ELSE Undefined

-----------------------------------------------------------------------------
(* processRawNode, steps 1 to 9: the AltNode built for raw node n before   *)
(* its children are visited; its parent is the AltNode of rawNodes[n].par  *)

\* the default left out: the raw value is taken as it is
noDefaultStr(v, dflt) == v

\* rawNode.<field> || dflt for a string field, as an always-set value
defaultStr(v, dflt) == Some(OrStr(v, dflt))

\* rawNode.<field> || 0 for a numeric field
defaultNum(v, dflt) == Some(OrNum(v, dflt))

\* fields the code copies only when the raw node has them (they come with
\* the spread of rawNode and get no default)
copied(v) == v

newAltNode(nodes, alts, counters, n, embedVectors) ==
  LET raw == nodes[n]
      p == raw.par
      kids == ChildrenIn(nodes, n)
  IN [ parent |-> p,
       type |-> raw.type,
       uniqueName |-> uniqueName(baseName(raw),
                                 CounterGet(counters, baseName(raw))),
       x |-> IF raw.hasBox THEN Some(relativeTo(nodes, p, raw.x, "x"))
             ELSE Undefined,
       y |-> IF raw.hasBox THEN Some(relativeTo(nodes, p, raw.y, "y"))
             ELSE Undefined,
       width |-> IF raw.hasBox THEN Some(raw.width) ELSE Undefined,
       height |-> IF raw.hasBox THEN Some(raw.height) ELSE Undefined,
       \* the first decimal of width and height
       widthTenths |-> IF raw.hasBox THEN raw.widthTenths ELSE 0,
       heightTenths |-> IF raw.hasBox THEN raw.heightTenths ELSE 0,
       rotation |-> IF raw.rotation # 0 THEN toDegrees(raw.rotation) ELSE 0,
       cumulativeRotation |->
         IF raw.rotation # 0 THEN cumulativeRotationOf(raw, alts, p)
         ELSE ParentCumulativeRotation(alts, p),
       layoutMode |-> defaultStr(raw.layoutMode, "NONE"),
       layoutSizingHorizontal |-> defaultStr(raw.layoutSizingHorizontal, "FIXED"),
       layoutSizingVertical |-> defaultStr(raw.layoutSizingVertical, "FIXED"),
       layoutGrow |-> defaultNum(raw.layoutGrow, 0),
       primaryAxisAlignItems |-> defaultStr(raw.primaryAxisAlignItems, "MIN"),
       counterAxisAlignItems |-> defaultStr(raw.counterAxisAlignItems, "MIN"),
       paddingLeft |-> defaultNum(raw.paddingLeft, 0),
       paddingRight |-> defaultNum(raw.paddingRight, 0),
       paddingTop |-> defaultNum(raw.paddingTop, 0),
       paddingBottom |-> defaultNum(raw.paddingBottom, 0),
       itemSpacing |-> copied(raw.itemSpacing),
       primaryAxisSizingMode |-> copied(raw.primaryAxisSizingMode),
       counterAxisSizingMode |-> copied(raw.counterAxisSizingMode),
       layoutPositioning |-> copied(raw.layoutPositioning),
       \* text: the raw fields come with the spread
       characters |-> copied(raw.characters),
       characterStyleOverrides |-> copied(raw.characterStyleOverrides),
       styleOverrideTable |-> copied(raw.styleOverrideTable),
       styledTextSegments |-> styledTextSegmentsOf(raw),
       canBeFlattened |-> canBeFlattenedOf(nodes, alts, n, p, embedVectors),
       svg |-> svgOf(nodes, n,
                     canBeFlattenedOf(nodes, alts, n, p, embedVectors)),
       \* from the spread: still the raw children array
       children |-> IF Len(kids) > 0
                    THEN Some([processed |-> FALSE, items |-> kids])
                    ELSE Undefined,
       isRelative |-> FALSE ]

\* the raw tree after steps 7, 7.5 and 9.5 of node n: resolved fills on the
\* raw fill objects, _flattenedIntoParent on the consumed VECTOR children
rawAfterBuild(nodes, alts, n, s) ==
  LET consumed ==
        IF CollectsFromChildren(nodes, alts, n, nodes[n].par,
                                embedVectorsOf(s))
        THEN {c \in 1..Len(nodes):
                \E k \in 1..Len(collectVectorGeometry(nodes, n)):
                   collectVectorGeometry(nodes, n)[k] = c}
        ELSE {}
  IN [c \in 1..Len(nodes) |->
        IF c = n
          THEN [nodes[c] EXCEPT !.fills = fillsAfter(nodes[n], s.useColorVariables)]
        ELSE IF c \in consumed
          THEN [nodes[c] EXCEPT !.flattenedIntoParent = TRUE]
        ELSE nodes[c]]

\* the raw tree when node n throws after step 7.5 (in isLikelyIcon or in
\* collectVectorGeometry): only the fills have been written
rawAfterFills(nodes, n, s) ==
  [nodes EXCEPT ![n].fills = fillsAfter(nodes[n], s.useColorVariables)]

\* a throw of processRawNode(n) after the name counter was incremented
ThrowsAfterNaming(nodes, alts, n, s) ==
  \/ isLikelyIconThrows(nodes, n)
  \/ /\ CollectsFromChildren(nodes, alts, n, nodes[n].par,
                             embedVectorsOf(s))
     /\ collectVectorGeometryThrows(nodes, n)

-----------------------------------------------------------------------------
(* processRawNode, steps 10 to 12: what a call returns once its children   *)
(* loop is over                                                            *)

\* the children assigned, isRelative left as it was
withChildrenOnly(alts, a, hadChildren, processedChildren) ==
  IF ~hadChildren THEN a
  ELSE [a EXCEPT
         !.children = Some([processed |-> TRUE, items |-> processedChildren])]

\* altNode after line 335-342: children and isRelative
withChildren(alts, a, hadChildren, processedChildren) ==
  IF ~hadChildren THEN a
  ELSE [a EXCEPT
         !.children = Some([processed |-> TRUE, items |-> processedChildren]),
         !.isRelative =
            \/ a.layoutMode = Some("NONE")
            \/ \E k \in 1..Len(processedChildren):
                 alts[processedChildren[k]].layoutPositioning = Some("ABSOLUTE")]

ChildItems(a) == IF a.children = Undefined THEN <<>> ELSE Val(a.children).items

hasChildren(a) == a.children # Undefined /\ Len(Val(a.children).items) > 0

\* the correction of step 12 left out
fixHugNever(a, sizing) == sizing

\* step 12: HUG without children becomes FIXED
fixHug(a, sizing) ==
  IF sizing = Some("HUG") /\ ~hasChildren(a) THEN Some("FIXED") ELSE sizing

\* the rotation a GROUP hands to a child of its list (line 356)
groupChildRotation(childCumulative, groupRotation) ==
  childCumulative + groupRotation

\* the AltNode heap after processRawNode(n) returns
altsAfterReturn(nodes, alts, n, processedChildren) ==
  LET a == withChildren(alts, alts[n], Len(ChildrenIn(nodes, n)) > 0,
                        processedChildren)
      items == ChildItems(a)
  IN IF nodes[n].type = "GROUP"
     THEN [c \in DOMAIN alts |->
            IF c = n
              THEN [a EXCEPT !.type = "FRAME", !.rotation = 0]
            ELSE IF a.rotation # 0 /\ \E k \in 1..Len(items): items[k] = c
              THEN [alts[c] EXCEPT !.cumulativeRotation =
                      groupChildRotation(alts[c].cumulativeRotation, a.rotation)]
            ELSE alts[c]]
     ELSE [alts EXCEPT ![n] =
            [a EXCEPT
               !.layoutSizingHorizontal = fixHug(a, a.layoutSizingHorizontal),
               !.layoutSizingVertical = fixHug(a, a.layoutSizingVertical)]]

\* a GROUP returned like any other node: nested, not spliced
returnedNested(nodes, alts, n, processedChildren) == <<n>>

\* the value processRawNode(n) returns, as the list the caller appends
returned(nodes, alts, n, processedChildren) ==
  IF nodes[n].type = "GROUP"
  THEN IF Len(ChildrenIn(nodes, n)) > 0 THEN processedChildren ELSE <<>>
  ELSE <<n>>

-----------------------------------------------------------------------------
(* extractNodesFromFigmaData and the POST /api/convert handler that calls  *)
(* it.  A payload is a parsed JSON value; the entries of a mapping are     *)
(* kept in the order for..in visits them.                                  *)

\* Largest number of entries in a document mapping or in a payload array.
MaxEntries == 2

\* the value of a document key: falsy (absent, null, 0, ""), or truthy with
\* the entries for..in enumerates (none for a number or true)
NoDocument == [truthy |-> FALSE, entries |-> <<>>]

\* the value of the data key: an object with its document key, or not an
\* object (absent, null, a primitive), where ?.document is undefined
NoData == [isObject |-> FALSE, document |-> NoDocument]

\* a payload that is not an array: kind is "undefined", "null", "primitive"
\* or "object"
Payload(kind, truthy, data, document, hasId) ==
  [ kind |-> kind, truthy |-> truthy, items |-> <<>>, data |-> data,
    document |-> document, hasId |-> hasId, self |-> "payload" ]

ArrayPayload(items) ==
  [ kind |-> "array", truthy |-> TRUE, items |-> items, data |-> NoData,
    document |-> NoDocument, hasId |-> FALSE, self |-> "payload" ]

\* JavaScript truthiness of the payload
Truthy(fd) == fd.kind \in {"array", "object"} \/ (fd.kind = "primitive" /\ fd.truthy)

\* figmaData?.data?.document is truthy
HasDataDocument(fd) ==
  fd.kind = "object" /\ fd.data.isObject /\ fd.data.document.truthy

\* figmaData?.document is truthy
HasDocument(fd) == fd.kind = "object" /\ fd.document.truthy

\* what one entry of a mapping pushes: nodeWrapper.document when it is
\* truthy; in the direct document format also a wrapper that is itself a
\* node object with an id (line 26)
pushed(w, direct) ==
  IF w.isObject /\ w.document # Undefined THEN <<Val(w.document)>>
  ELSE IF direct /\ w.isObject /\ w.hasId THEN <<w.self>>
  ELSE <<>>

RECURSIVE fromWrappers(_, _)
fromWrappers(entries, direct) ==
  IF entries = <<>> THEN <<>>
  ELSE pushed(Head(entries), direct) \o fromWrappers(Tail(entries), direct)

\* every shape is tried until one yields a node
extractFallingThrough(fd) ==
  IF HasDataDocument(fd) /\ fromWrappers(fd.data.document.entries, FALSE) # <<>>
    THEN fromWrappers(fd.data.document.entries, FALSE)
  ELSE IF HasDocument(fd) /\ fromWrappers(fd.document.entries, TRUE) # <<>>
    THEN fromWrappers(fd.document.entries, TRUE)
  ELSE IF fd.kind = "array" /\ fd.items # <<>> THEN fd.items
  ELSE IF fd.kind = "object" /\ fd.hasId THEN <<fd.self>>
  ELSE <<>>

\* lines 8-45
extractNodesFromFigmaData(fd) ==
  IF HasDataDocument(fd) THEN fromWrappers(fd.data.document.entries, FALSE)
  ELSE IF HasDocument(fd) THEN fromWrappers(fd.document.entries, TRUE)
  ELSE IF fd.kind = "array" THEN fd.items
  ELSE IF fd.kind = "object" /\ fd.hasId THEN <<fd.self>>
  ELSE <<>>

\* no request is being handled
NoRequest ==
  [ at |-> "idle", figmaData |-> Payload("undefined", FALSE, NoData, NoDocument, FALSE),
    hasFramework |-> FALSE, rawNodes |-> <<>>, status |-> 0, error |-> "" ]

\* res.status(400).json({success: false, error})
Responded(c, status, error) ==
  [c EXCEPT !.at = "responded", !.status = status, !.error = error]

\* no earlier call
NoRun == Undefined

\* no second call of processRawFigmaNodes
NoCall == Undefined

-----------------------------------------------------------------------------
(* Inputs                                                                  *)

\* a raw FRAME named "A" that carries nothing optional
PlainNode ==
  [ par |-> 0, isNull |-> FALSE, hasId |-> TRUE, id |-> "", type |-> "FRAME",
    nameKind |-> "string", name |-> "A", visible |-> TRUE, rotation |-> 0,
    hasBox |-> FALSE, x |-> 0, y |-> 0, width |-> 0, height |-> 0,
    widthTenths |-> 0, heightTenths |-> 0,
    layoutMode |-> Undefined, layoutSizingHorizontal |-> Undefined,
    layoutSizingVertical |-> Undefined, layoutGrow |-> Undefined,
    primaryAxisAlignItems |-> Undefined, counterAxisAlignItems |-> Undefined,
    paddingLeft |-> Undefined, paddingRight |-> Undefined,
    paddingTop |-> Undefined, paddingBottom |-> Undefined,
    itemSpacing |-> Undefined, primaryAxisSizingMode |-> Undefined,
    counterAxisSizingMode |-> Undefined, layoutPositioning |-> Undefined,
    characters |-> Undefined, characterStyleOverrides |-> Undefined,
    styleOverrideTable |-> Undefined,
    fills |-> <<>>, fillGeometry |-> <<>>, flattenedIntoParent |-> FALSE ]

\* a null entry of a children array or of rawNodes
NullEntry ==
  [PlainNode EXCEPT !.isNull = TRUE, !.hasId = FALSE, !.type = "",
                    !.nameKind = "undefined", !.name = ""]

\* nodes that are skipped or fail: no id, invisible, a numeric name, null
NoIdNode == [PlainNode EXCEPT !.hasId = FALSE]
InvisibleNode == [PlainNode EXCEPT !.visible = FALSE]
NumericNameNode == [PlainNode EXCEPT !.nameKind = "number", !.name = ""]
DefectNodes == {NullEntry, NoIdNode, InvisibleNode, NumericNameNode}

\* parent arrays of the forests of N nodes numbered in document order
Shapes(N) ==
  {p \in [1..N -> 0..(N - 1)] :
     \A k \in 1..N :
        \/ p[k] = 0
        \/ /\ k > 1
           /\ \/ p[k] = k - 1
              \/ \E j \in 1..(k - 1) :
                   /\ p[k] = j
                   /\ j \in AncestorsIn([m \in 1..N |-> [par |-> p[m]]], k - 1)}

\* a null entry has no children array
WellFormed(nodes) ==
  \A k \in 1..Len(nodes) : nodes[k].par # 0 => ~nodes[nodes[k].par].isNull

\* the entries of one document with their parent links and their ids: the
\* k-th entry that has an id has the id "k"
Document(entries, parents) ==
  [k \in 1..Len(entries) |->
     [entries[k] EXCEPT !.par = parents[k],
                        !.id = IF entries[k].hasId THEN toString(k) ELSE ""]]

\* the raw tree: at most MaxNodes entries drawn from NodeSet, in any shape;
\* OtherSet: the second calls that may be pending
InitCalls(NodeSet, SettingsSet, FigmaSet, OtherSet) ==
  /\ \E N \in 0..MaxNodes : \E p \in Shapes(N) : \E t \in [1..N -> NodeSet] :
       /\ rawNodes = Document(t, p)
       /\ WellFormed(rawNodes)
  /\ settings \in SettingsSet
  /\ hasFigma \in FigmaSet
  /\ nodeCache = <<>>
  /\ other \in OtherSet
  /\ nameCounters = <<>>
  /\ altNodes = <<>>
  /\ stack = <<>>
  /\ i = 1
  /\ processedNodes = <<>>
  /\ pc = "start"
  /\ firstRun = NoRun
  /\ convert = NoRequest

\* a single call
InitWith(NodeSet, SettingsSet, FigmaSet) ==
  InitCalls(NodeSet, SettingsSet, FigmaSet, {NoCall})

-----------------------------------------------------------------------------
(* processRawFigmaNodes and the recursion of processRawNode                *)

\* _populateNodeCache (setup-globals.ts): addToCache visits the tree in
\* document order and reads node.id, which throws on a null entry
FirstNull ==
  IF \E k \in NodeIds : rawNodes[k].isNull
  THEN CHOOSE k \in NodeIds :
         rawNodes[k].isNull /\ \A j \in 1..(k - 1) : ~rawNodes[j].isNull
  ELSE Len(rawNodes) + 1

populated == {k \in 1..(FirstNull - 1) : rawNodes[k].hasId}

\* the call that is running: the first one, or the second when the first
\* is the suspended one
CurrentCall == IF other = NoCall THEN 1 ELSE 3 - Val(other).call

\* nodeCache.set(node.id, node) for every visited node: a later node
\* replaces an earlier one of the same id, whatever call cached that one;
\* a cached object is named by the call it was passed to and its index
cacheAfterPopulate ==
  [id \in DOMAIN nodeCache \cup {rawNodes[k].id : k \in populated} |->
     IF \E k \in populated : rawNodes[k].id = id
     THEN [call |-> CurrentCall,
           node |-> CHOOSE k \in populated :
                      /\ rawNodes[k].id = id
                      /\ \A j \in populated : rawNodes[j].id = id => j <= k]
     ELSE nodeCache[id]]

\* figma.getNodeByIdAsync(id): nodeCache.get(id) || null
getNodeByIdAsync(id) ==
  IF id \in DOMAIN nodeCache THEN Some(nodeCache[id]) ELSE Undefined

\* lines 48-58: populate the cache when global.figma is installed; the
\* throw of addToCache is outside every try block
Populate ==
  /\ pc = "start"
  /\ nodeCache' = IF hasFigma THEN cacheAfterPopulate ELSE nodeCache
  /\ pc' = IF hasFigma /\ FirstNull <= Len(rawNodes) THEN "rejected" ELSE "run"
  /\ UNCHANGED <<rawNodes, settings, hasFigma, nameCounters, altNodes, stack,
                 i, processedNodes>>
  /\ UNCHANGED <<firstRun, convert, other>>

Top == stack[Len(stack)]

\* the children array the innermost loop iterates (rawNodes at top level)
LoopOver == IF stack = <<>> THEN Children(0) ELSE Children(Top.node)
LoopAt == IF stack = <<>> THEN i ELSE Top.next
LoopHasNext == LoopAt <= Len(LoopOver)
Current == LoopOver[LoopAt]

\* the loop moves on to its next entry, appending res to its result list
Advance(res) ==
  IF stack = <<>>
  THEN /\ i' = i + 1
       /\ processedNodes' = processedNodes \o res
       /\ stack' = stack
  ELSE /\ stack' = [stack EXCEPT ![Len(stack)] =
                      [@ EXCEPT !.next = @ + 1,
                                !.processedChildren = @ \o res]]
       /\ UNCHANGED <<i, processedNodes>>

\* line 63 reads rawNode.id of a null top-level entry inside the try; the
\* catch block reads rawNode.id again (line 74) and that throw escapes
NullRoot ==
  /\ pc = "run" /\ stack = <<>> /\ LoopHasNext
  /\ rawNodes[Current].isNull
  /\ pc' = "rejected"
  /\ UNCHANGED <<rawNodes, settings, hasFigma, nodeCache, nameCounters,
                 altNodes, stack, i, processedNodes>>
  /\ UNCHANGED <<firstRun, convert, other>>

\* line 317 reads child.visible of a null entry outside the try: the call
\* that runs the loop throws, and its caller's catch drops it
NullChild ==
  /\ pc = "run" /\ stack # <<>> /\ LoopHasNext
  /\ rawNodes[Current].isNull
  /\ stack' = SubSeq(stack, 1, Len(stack) - 1)
  /\ UNCHANGED <<rawNodes, settings, hasFigma, nodeCache, nameCounters,
                 altNodes, i, processedNodes, pc>>
  /\ UNCHANGED <<firstRun, convert, other>>

\* line 317: an invisible or consumed child is not processed
SkipChild ==
  /\ pc = "run" /\ stack # <<>> /\ LoopHasNext
  /\ ~rawNodes[Current].isNull
  /\ ~rawNodes[Current].visible \/ rawNodes[Current].flattenedIntoParent
  /\ Advance(<<>>)
  /\ UNCHANGED <<rawNodes, settings, hasFigma, nodeCache, nameCounters,
                 altNodes, pc>>
  /\ UNCHANGED <<firstRun, convert, other>>

\* the loop calls processRawNode on its current entry
Calls ==
  /\ pc = "run" /\ LoopHasNext
  /\ ~rawNodes[Current].isNull
  /\ stack # <<>> =>
       rawNodes[Current].visible /\ ~rawNodes[Current].flattenedIntoParent

\* the visibility test of line 97 left out
ReturnsNullIdOnly(raw) == ~raw.hasId

\* lines 92-100: no id, or invisible: processRawNode returns null
ReturnsNull(raw) == ~raw.hasId \/ ~raw.visible

ReturnNull ==
  /\ Calls
  /\ ReturnsNull(rawNodes[Current])
  /\ Advance(<<>>)
  /\ UNCHANGED <<rawNodes, settings, hasFigma, nodeCache, nameCounters,
                 altNodes, pc>>
  /\ UNCHANGED <<firstRun, convert, other>>

\* no try around the recursive call: the throw unwinds every active call
\* up to the try of processRawFigmaNodes
ThrowUnwinds ==
  /\ Calls
  /\ ~ReturnsNull(rawNodes[Current])
  /\ \/ NameThrows(rawNodes[Current])
     \/ ThrowsAfterNaming(rawNodes, altNodes, Current, settings)
  /\ IF stack = <<>>
     THEN Advance(<<>>)
     ELSE stack' = <<>> /\ UNCHANGED <<i, processedNodes>>
  /\ UNCHANGED <<rawNodes, settings, hasFigma, nodeCache, nameCounters,
                 altNodes, pc>>
  /\ UNCHANGED <<firstRun, convert, other>>

\* the call throws and the catch of the calling loop continues: at line 120
\* before anything was written, or in step 9 after naming and fills
Throw ==
  /\ Calls
  /\ ~ReturnsNull(rawNodes[Current])
  /\ IF NameThrows(rawNodes[Current])
     THEN UNCHANGED <<rawNodes, nameCounters>>
     ELSE /\ ThrowsAfterNaming(rawNodes, altNodes, Current, settings)
          /\ nameCounters' =
               CounterSet(nameCounters, baseName(rawNodes[Current]),
                 CounterGet(nameCounters, baseName(rawNodes[Current])) + 1)
          /\ rawNodes' = rawAfterFills(rawNodes, Current, settings)
  /\ Advance(<<>>)
  /\ UNCHANGED <<settings, hasFigma, nodeCache, altNodes, pc>>
  /\ UNCHANGED <<firstRun, convert, other>>

\* lines 102-313: the AltNode is built and the call enters its children loop
Build ==
  /\ Calls
  /\ ~ReturnsNull(rawNodes[Current])
  /\ ~NameThrows(rawNodes[Current])
  /\ ~ThrowsAfterNaming(rawNodes, altNodes, Current, settings)
  /\ LET n == Current
         b == baseName(rawNodes[n])
     IN /\ altNodes' =
             [c \in DOMAIN altNodes \cup {n} |->
                IF c = n
                THEN newAltNode(rawNodes, altNodes, nameCounters, n,
                                embedVectorsOf(settings))
                ELSE altNodes[c]]
        /\ nameCounters' =
             CounterSet(nameCounters, b, CounterGet(nameCounters, b) + 1)
        /\ rawNodes' = rawAfterBuild(rawNodes, altNodes, n, settings)
        /\ IF stack = <<>>
           THEN /\ i' = i + 1
                /\ stack' = <<[node |-> n, next |-> 1,
                               processedChildren |-> <<>>]>>
           ELSE /\ i' = i
                /\ stack' = Append(
                     [stack EXCEPT ![Len(stack)] = [@ EXCEPT !.next = @ + 1]],
                     [node |-> n, next |-> 1, processedChildren |-> <<>>])
  /\ UNCHANGED <<settings, hasFigma, nodeCache, processedNodes, pc>>
  /\ UNCHANGED <<firstRun, convert, other>>

\* lines 335-376: the children loop is over; the call returns its AltNode,
\* or for a GROUP its children, to the loop that called it
Return ==
  /\ pc = "run" /\ stack # <<>> /\ ~LoopHasNext
  /\ LET n == Top.node
         res == returned(rawNodes, altNodes, n, Top.processedChildren)
         rest == SubSeq(stack, 1, Len(stack) - 1)
     IN /\ altNodes' = altsAfterReturn(rawNodes, altNodes, n,
                                       Top.processedChildren)
        /\ IF rest = <<>>
           THEN /\ processedNodes' = processedNodes \o res
                /\ stack' = rest
           ELSE /\ stack' = [rest EXCEPT ![Len(rest)] =
                               [@ EXCEPT !.processedChildren = @ \o res]]
                /\ UNCHANGED processedNodes
  /\ UNCHANGED <<rawNodes, settings, hasFigma, nodeCache, nameCounters, i, pc>>
  /\ UNCHANGED <<firstRun, convert, other>>

\* line 82: the promise resolves with processedNodes
Finish ==
  /\ pc = "run" /\ stack = <<>> /\ ~LoopHasNext
  /\ pc' = "done"
  /\ UNCHANGED <<rawNodes, settings, hasFigma, nodeCache, nameCounters,
                 altNodes, stack, i, processedNodes>>
  /\ UNCHANGED <<firstRun, convert, other>>

Next ==
  \/ Populate
  \/ NullRoot
  \/ NullChild
  \/ SkipChild
  \/ ReturnNull
  \/ Throw
  \/ Build
  \/ Return
  \/ Finish

\* the caller passes the same rawNodes and settings to processRawFigmaNodes
\* once more after the first call has settled: the raw objects are as the
\* first call left them, everything local to a call starts afresh
Again ==
  /\ pc \in {"done", "rejected"}
  /\ firstRun = NoRun
  /\ firstRun' = Some([altNodes |-> altNodes,
                       processedNodes |-> processedNodes, pc |-> pc])
  /\ nameCounters' = <<>>
  /\ altNodes' = <<>>
  /\ stack' = <<>>
  /\ i' = 1
  /\ processedNodes' = <<>>
  /\ pc' = "start"
  /\ UNCHANGED <<rawNodes, settings, hasFigma, nodeCache, convert, other>>

NextTwice == Next \/ Again

NoSettings == [embedVectors |-> FALSE, useColorVariables |-> FALSE]

\* structure and names: FRAME and GROUP nodes named "A" or "A_01"
StructureNodes ==
  { [PlainNode EXCEPT !.type = t, !.name = nm] :
      t \in {"FRAME", "GROUP"}, nm \in {"A", "A_01"} } \cup DefectNodes

Init == InitWith(StructureNodes, {NoSettings}, BOOLEAN)

Spec == Init /\ [][Next]_vars

\* rotation: FRAME and GROUP nodes turned by 0, 1 or 2 quarter turns
RotationNodes ==
  { [PlainNode EXCEPT !.type = t, !.rotation = r] :
      t \in {"FRAME", "GROUP"}, r \in {0, 1, 2} } \cup DefectNodes

InitRotation == InitWith(RotationNodes, {NoSettings}, {FALSE})

SpecRotation == InitRotation /\ [][Next]_vars

\* icons: boxed frames around the 48 threshold (the large one with an IMAGE
\* fill), VECTOR nodes with and without path geometry, a small GROUP, a
\* frame without a box
OnePath == <<[path |-> "M0 0L1 1", windingRule |-> "NONZERO"]>>

Boxed(node, w, h) ==
  [node EXCEPT !.hasBox = TRUE, !.width = w, !.height = h]

\* an IMAGE fill that was not resolved upstream
ImageFill ==
  [ type |-> "IMAGE", visible |-> TRUE, color |-> Undefined,
    base64Url |-> Undefined, imageUrl |-> Undefined,
    resolvedImageUrl |-> Undefined, boundColorId |-> Undefined,
    variableColorName |-> Undefined ]

\* a SOLID fill of the given colour (channels in hundredths)
SolidFill(r, g, b, visible) ==
  [ImageFill EXCEPT !.type = "SOLID", !.visible = visible,
                    !.color = Some([r |-> r, g |-> g, b |-> b])]

IconNodes ==
  { Boxed(PlainNode, 48, 48),
    Boxed([PlainNode EXCEPT !.fills = <<ImageFill>>], 49, 49),
    Boxed(PlainNode, 10, 48), PlainNode,
    Boxed([PlainNode EXCEPT !.type = "GROUP"], 48, 48),
    [PlainNode EXCEPT !.type = "VECTOR", !.fillGeometry = OnePath],
    Boxed([PlainNode EXCEPT !.type = "VECTOR"], 10, 48),
    NullEntry, InvisibleNode }

EmbedSettings ==
  { [embedVectors |-> e, useColorVariables |-> FALSE] : e \in BOOLEAN }

InitIcon == InitWith(IconNodes, EmbedSettings, {FALSE})

SpecIcon == InitIcon /\ [][Next]_vars

\* layout: FRAME and GROUP nodes without layout fields, with HUG sizing on
\* both axes, or with every layout field set; a small HUG frame and a
\* VECTOR with geometry that it consumes
HugLayout(node) ==
  [node EXCEPT !.layoutSizingHorizontal = Some("HUG"),
               !.layoutSizingVertical = Some("HUG")]

FullLayout(node) ==
  [node EXCEPT !.layoutMode = Some("HORIZONTAL"),
               !.layoutSizingHorizontal = Some("HUG"),
               !.layoutSizingVertical = Some("FILL"),
               !.layoutGrow = Some(1),
               !.primaryAxisAlignItems = Some("CENTER"),
               !.counterAxisAlignItems = Some("MAX"),
               !.paddingLeft = Some(4), !.paddingRight = Some(4),
               !.paddingTop = Some(0), !.paddingBottom = Some(2),
               !.itemSpacing = Some(0),
               !.primaryAxisSizingMode = Some("AUTO"),
               !.counterAxisSizingMode = Some("FIXED")]

LayoutNodes ==
  { [PlainNode EXCEPT !.type = t] : t \in {"FRAME", "GROUP"} }
  \cup { HugLayout([PlainNode EXCEPT !.type = t]) : t \in {"FRAME", "GROUP"} }
  \cup { FullLayout([PlainNode EXCEPT !.type = t]) : t \in {"FRAME", "GROUP"} }
  \cup { Boxed(HugLayout(PlainNode), 48, 48),
         [PlainNode EXCEPT !.type = "VECTOR", !.fillGeometry = OnePath] }
  \cup DefectNodes

InitLayout ==
  InitWith(LayoutNodes,
           {[embedVectors |-> TRUE, useColorVariables |-> FALSE]}, {FALSE})

SpecLayout == InitLayout /\ [][Next]_vars

\* vector markup, in two calls on the same raw objects: a small frame and a
\* small GROUP that collect from their children, VECTOR children with one
\* path and a visible solid fill, with two paths behind a hidden fill,
\* without geometry, and invisible with geometry
TwoPaths ==
  <<[path |-> "M0 0H2", windingRule |-> "EVENODD"],
    [path |-> "M1 1V3", windingRule |-> "NONZERO"]>>

Vector(geometry, fills) ==
  [PlainNode EXCEPT !.type = "VECTOR", !.fillGeometry = geometry,
                    !.fills = fills]

SvgNodes ==
  { PlainNode,
    Boxed(PlainNode, 24, 24),
    Boxed([PlainNode EXCEPT !.type = "GROUP"], 24, 24),
    Vector(OnePath, <<SolidFill(100, 0, 0, TRUE)>>),
    Vector(TwoPaths, <<SolidFill(0, 0, 100, FALSE), ImageFill,
                       SolidFill(0, 50, 100, TRUE)>>),
    Vector(OnePath, <<>>),
    Vector(<<>>, <<SolidFill(100, 0, 0, TRUE)>>),
    [Vector(OnePath, <<>>) EXCEPT !.visible = FALSE],
    NullEntry, InvisibleNode }

InitTwice ==
  InitWith(SvgNodes,
           {[embedVectors |-> TRUE, useColorVariables |-> FALSE]}, {FALSE})

SpecTwice == InitTwice /\ [][NextTwice]_vars

\* geometry: boxes at different absolute offsets, nodes without a box, a
\* child positioned absolutely, an auto-layout frame
At(node, x, y, w, h) ==
  [node EXCEPT !.hasBox = TRUE, !.x = x, !.y = y, !.width = w, !.height = h]

GeometryNodes ==
  { PlainNode,
    At(PlainNode, 50, 50, 200, 100),
    At(PlainNode, 60, 70, 100, 60),
    At([PlainNode EXCEPT !.layoutPositioning = Some("ABSOLUTE")], 60, 70, 100, 60),
    [PlainNode EXCEPT !.layoutMode = Some("HORIZONTAL")],
    At([PlainNode EXCEPT !.layoutMode = Some("VERTICAL")], 50, 50, 200, 100),
    At([PlainNode EXCEPT !.type = "GROUP"], 55, 65, 150, 80),
    NullEntry, InvisibleNode, NumericNameNode }

InitGeometry == InitWith(GeometryNodes, {NoSettings}, {FALSE})

SpecGeometry == InitGeometry /\ [][Next]_vars

\* naming: frames whose names differ by surrounding blanks only, are empty,
\* blank or absent; a GROUP and a boxed frame of the same name
Named(node, name) == [node EXCEPT !.name = name]

NamingNodes ==
  { Named(PlainNode, nm) : nm \in {"A", " A ", "", "  "} }
  \cup { [PlainNode EXCEPT !.nameKind = "undefined", !.name = ""],
         [PlainNode EXCEPT !.type = "GROUP"],
         Boxed(PlainNode, 48, 48) }
  \cup DefectNodes

InitNaming == InitWith(NamingNodes, {NoSettings}, {FALSE})

SpecNaming == InitNaming /\ [][Next]_vars

-----------------------------------------------------------------------------
(* POST /api/convert up to the call of processRawFigmaNodes, and a direct  *)
(* call of extractNodesFromFigmaData                                       *)

\* the test of line 79 left out
TruthyAlways(fd) == TRUE

\* line 79: !figmaData
figmaDataGiven(fd) == Truthy(fd)

\* lines 79-84
MissingFigmaData ==
  /\ convert.at = "received"
  /\ ~figmaDataGiven(convert.figmaData)
  /\ convert' = Responded(convert, 400, "figmaData is required")
  /\ UNCHANGED <<rawNodes, settings, hasFigma, nodeCache, nameCounters,
                 altNodes, stack, i, processedNodes, pc, firstRun, other>>

\* lines 86-91
MissingFramework ==
  /\ convert.at = "received"
  /\ figmaDataGiven(convert.figmaData)
  /\ ~convert.hasFramework
  /\ convert' = Responded(convert, 400, "settings.framework is required")
  /\ UNCHANGED <<rawNodes, settings, hasFigma, nodeCache, nameCounters,
                 altNodes, stack, i, processedNodes, pc, firstRun, other>>

\* line 94
Extract ==
  /\ convert.at = "received"
  /\ figmaDataGiven(convert.figmaData)
  /\ convert.hasFramework
  /\ convert' = [convert EXCEPT
                   !.at = "extracted",
                   !.rawNodes = extractNodesFromFigmaData(convert.figmaData)]
  /\ UNCHANGED <<rawNodes, settings, hasFigma, nodeCache, nameCounters,
                 altNodes, stack, i, processedNodes, pc, firstRun, other>>

\* lines 97-102
NoValidNodes ==
  /\ convert.at = "extracted"
  /\ Len(convert.rawNodes) = 0
  /\ convert' = Responded(convert, 400, "No valid nodes found in figmaData")
  /\ UNCHANGED <<rawNodes, settings, hasFigma, nodeCache, nameCounters,
                 altNodes, stack, i, processedNodes, pc, firstRun, other>>

\* line 116: the handler goes on to processRawFigmaNodes
Process ==
  /\ convert.at = "extracted"
  /\ Len(convert.rawNodes) > 0
  /\ convert' = [convert EXCEPT !.at = "processing"]
  /\ UNCHANGED <<rawNodes, settings, hasFigma, nodeCache, nameCounters,
                 altNodes, stack, i, processedNodes, pc, firstRun, other>>

\* extractNodesFromFigmaData called on its own, whatever the payload
ExtractDirect ==
  /\ convert.at = "called"
  /\ convert' = [convert EXCEPT
                   !.at = "returned",
                   !.rawNodes = extractNodesFromFigmaData(convert.figmaData)]
  /\ UNCHANGED <<rawNodes, settings, hasFigma, nodeCache, nameCounters,
                 altNodes, stack, i, processedNodes, pc, firstRun, other>>

NextConvert ==
  \/ MissingFigmaData
  \/ MissingFramework
  \/ Extract
  \/ NoValidNodes
  \/ Process
  \/ ExtractDirect

\* entries of a mapping: a REST wrapper {document: node}, a node object
\* with an id, a wrapper that is both, an empty object, null
Wrappers ==
  { [self |-> "w1", isObject |-> TRUE, document |-> Some("n1"), hasId |-> FALSE],
    [self |-> "w2", isObject |-> TRUE, document |-> Undefined, hasId |-> TRUE],
    [self |-> "w3", isObject |-> TRUE, document |-> Some("n3"), hasId |-> TRUE],
    [self |-> "w4", isObject |-> TRUE, document |-> Undefined, hasId |-> FALSE],
    [self |-> "w5", isObject |-> FALSE, document |-> Undefined, hasId |-> FALSE] }

Documents ==
  {NoDocument} \cup
  { [truthy |-> TRUE, entries |-> e] :
      e \in UNION { [1..N -> Wrappers] : N \in 0..MaxEntries } }

Payloads ==
  { Payload(k, t, NoData, NoDocument, FALSE) :
      k \in {"undefined", "null", "primitive"}, t \in BOOLEAN }
  \cup { ArrayPayload(e) :
           e \in UNION { [1..N -> {"n1", "null"}] : N \in 0..MaxEntries } }
  \cup { Payload("object", TRUE, d, doc, id) :
           d \in {NoData} \cup { [isObject |-> TRUE, document |-> dd] :
                                   dd \in Documents },
           doc \in Documents, id \in BOOLEAN }

InitExtract ==
  /\ rawNodes = <<>>
  /\ settings = NoSettings
  /\ hasFigma = FALSE
  /\ nodeCache = <<>>
  /\ other = NoCall
  /\ nameCounters = <<>>
  /\ altNodes = <<>>
  /\ stack = <<>>
  /\ i = 1
  /\ processedNodes = <<>>
  /\ pc = "start"
  /\ firstRun = NoRun
  /\ \E fd \in Payloads, fw \in BOOLEAN, at \in {"received", "called"} :
       convert = [NoRequest EXCEPT !.at = at, !.figmaData = fd,
                                   !.hasFramework = fw]

SpecExtract == InitExtract /\ [][NextConvert]_vars

-----------------------------------------------------------------------------
(* The output: the nodes reachable from processedNodes                     *)

RECURSIVE EmittedUnder(_)
EmittedUnder(n) ==
  {n} \cup UNION { EmittedUnder(ChildItems(altNodes[n])[k]) :
                     k \in 1..Len(ChildItems(altNodes[n])) }

Emitted ==
  UNION { EmittedUnder(processedNodes[k]) : k \in 1..Len(processedNodes) }

\* the list a loop over the children of p appends to (p = 0: top level)
ListOf(p) == IF p = 0 THEN processedNodes ELSE ChildItems(altNodes[p])

InList(n, list) == \E k \in 1..Len(list) : list[k] = n

IsIncreasing(list) ==
  \A j, k \in 1..Len(list) : j < k => list[j] < list[k]

HasNullChild(n) == \E c \in NodeIds : rawNodes[c].par = n /\ rawNodes[c].isNull

\* a raw entry whose own processing yields a node: an object with an id,
\* visible, with a usable name, no null entry among its children, and not
\* consumed by its parent's vector markup
Succeeds(n) ==
  /\ ~rawNodes[n].isNull /\ rawNodes[n].hasId /\ rawNodes[n].visible
  /\ ~NameThrows(rawNodes[n]) /\ ~HasNullChild(n)
  /\ ~rawNodes[n].flattenedIntoParent

-----------------------------------------------------------------------------
(* Claims                                                                  *)

\* C1: the uniqueName values of the nodes emitted by one call are pairwise
\* distinct, whatever the raw names are.
C1_UniqueNamesDistinct ==
  \A m, n \in Emitted :
     m # n => altNodes[m].uniqueName # altNodes[n].uniqueName

RECURSIVE SumRotation(_)
SumRotation(S) ==
  IF S = {} THEN 0
  ELSE LET a == CHOOSE a \in S : TRUE
       IN toDegrees(rawNodes[a].rotation) + SumRotation(S \ {a})

\* C2: the cumulativeRotation of every emitted node is its own rotation plus
\* the rotations of all its raw ancestors, each counted once, an inlined
\* GROUP ancestor included.
C2_CumulativeRotationCountsEachAncestorOnce ==
  \A n \in Emitted :
     altNodes[n].cumulativeRotation = SumRotation({n} \cup Ancestors(n))

\* C5: processRawFigmaNodes never rejects, whatever the entries of the list
\* are (null entries included).
C5_NeverRejects == pc # "rejected"

DocOrder(S) == SelectSeq([k \in 1..Len(rawNodes) |-> k], LAMBDA k : k \in S)

\* every node strictly between d and p is a GROUP that was inlined
RECURSIVE ThroughGroups(_, _)
ThroughGroups(p, d) ==
  LET q == rawNodes[d].par
  IN \/ q = p
     \/ /\ q # 0
        /\ rawNodes[q].type = "GROUP" /\ Succeeds(q)
        /\ ThroughGroups(p, q)

\* the raw nodes whose AltNode belongs in the list of p
Survivors(p) ==
  { d \in NodeIds :
      /\ rawNodes[d].type # "GROUP" /\ Succeeds(d)
      /\ ThroughGroups(p, d) }

\* C3: a raw GROUP is never emitted, at any depth; in its place, in the list
\* of its parent (or in the top-level result), stand its surviving children
\* in document order, so every list holds exactly the surviving non-GROUP
\* nodes reachable through GROUPs only, in the order of the raw tree.
C3_GroupsInlinedInPlace ==
  /\ \A n \in Emitted : rawNodes[n].type # "GROUP"
  /\ pc = "done" =>
       \A p \in {0} \cup Emitted : ListOf(p) = DocOrder(Survivors(p))

\* a GROUP with an emitted child stands before an emitted sibling, and the
\* result lists the child first
C3_Witness ==
  /\ pc = "done"
  /\ \E g, d, s \in NodeIds :
       /\ rawNodes[g].type = "GROUP" /\ g \in DOMAIN altNodes
       /\ rawNodes[d].par = g /\ rawNodes[s].par = rawNodes[g].par
       /\ g < s /\ d \in Emitted /\ s \in Emitted
       /\ InList(d, ListOf(rawNodes[g].par))

\* a node whose processing throws: its name is a number (line 120), or its
\* children array holds a null entry (lines 317, 456 or 475)
FailsInProcessing(c) ==
  /\ ~rawNodes[c].isNull /\ rawNodes[c].hasId /\ rawNodes[c].visible
  /\ NameThrows(rawNodes[c]) \/ HasNullChild(c)

\* the loop over the children of p reaches each of its entries
LoopCompletes(p) == p = 0 \/ (p \in DOMAIN altNodes /\ ~HasNullChild(p))

\* C4: when the processing of a node throws, the node and everything below
\* it are left out, the parent is still emitted, and the parent's list (or
\* the top-level result) holds its other successfully processed children in
\* original order; no emitted node is left with unprocessed children.
C4_FailureDropsOnlyTheFailedNode ==
  /\ \A n \in Emitted :
        altNodes[n].children # Undefined => Val(altNodes[n].children).processed
  /\ pc = "done" =>
       \A c \in NodeIds :
          FailsInProcessing(c) /\ LoopCompletes(rawNodes[c].par) =>
            LET p == rawNodes[c].par
            IN /\ c \notin Emitted
               /\ \A d \in NodeIds : c \in Ancestors(d) => d \notin Emitted
               /\ (/\ p # 0 /\ rawNodes[p].type # "GROUP"
                   /\ \A q \in Ancestors(p) : ~HasNullChild(q))
                    => p \in Emitted
               /\ \A s \in NodeIds :
                    (/\ rawNodes[s].par = p /\ Succeeds(s)
                     /\ rawNodes[s].type # "GROUP")
                      => InList(s, ListOf(p))
               /\ IsIncreasing(ListOf(p))

\* a failing child between nothing and a later sibling, under an emitted
\* parent that lists the sibling
C4_Witness ==
  /\ pc = "done"
  /\ \E c, s \in NodeIds :
       /\ FailsInProcessing(c) /\ rawNodes[c].par # 0
       /\ rawNodes[c].par \in Emitted
       /\ rawNodes[s].par = rawNodes[c].par /\ c < s
       /\ InList(s, ListOf(rawNodes[c].par))

\* C6: a raw node with visible === false is never emitted and neither is
\* any node below it; the visible children of an emitted parent that are
\* processed successfully are all in its list, invisible siblings or not.
C6_InvisibleSubtreesPruned ==
  /\ \A n \in Emitted :
        /\ rawNodes[n].visible
        /\ \A a \in Ancestors(n) : rawNodes[a].visible
  /\ pc = "done" =>
       \A v, s \in NodeIds :
          (/\ ~rawNodes[v].isNull /\ ~rawNodes[v].visible
           /\ rawNodes[s].par = rawNodes[v].par
           /\ rawNodes[v].par \in {0} \cup Emitted
           /\ Succeeds(s) /\ rawNodes[s].type # "GROUP")
            => InList(s, ListOf(rawNodes[v].par))

\* an invisible node with a visible child, next to an emitted sibling
C6_Witness ==
  /\ pc = "done"
  /\ \E v, c, s \in NodeIds :
       /\ ~rawNodes[v].isNull /\ ~rawNodes[v].visible
       /\ rawNodes[c].par = v /\ rawNodes[c].visible /\ ~rawNodes[c].isNull
       /\ rawNodes[s].par = rawNodes[v].par /\ s \in Emitted

\* C7: the raw input is read-only: no step of the normalization changes a
\* field of a raw node or of one of its fills.
C7_RawInputReadOnly == [][rawNodes' = rawNodes]_vars

\* C8: no emitted node is HUG on an axis while it has no emitted children: a
\* raw HUG axis of a node that ends up without children is FIXED, and it
\* stays HUG on a node with at least one emitted child.
C8_HugOnlyWithChildren ==
  \A n \in Emitted :
     LET a == altNodes[n]
         kids == Len(ChildItems(a))
     IN /\ a.layoutSizingHorizontal = Some("HUG") => kids > 0
        /\ a.layoutSizingVertical = Some("HUG") => kids > 0
        /\ rawNodes[n].layoutSizingHorizontal = Some("HUG") =>
             a.layoutSizingHorizontal =
               (IF kids > 0 THEN Some("HUG") ELSE Some("FIXED"))
        /\ rawNodes[n].layoutSizingVertical = Some("HUG") =>
             a.layoutSizingVertical =
               (IF kids > 0 THEN Some("HUG") ELSE Some("FIXED"))

\* a raw HUG node whose children were all dropped is FIXED, next to a raw
\* HUG node that kept a child and is still HUG
C8_Witness ==
  /\ pc = "done"
  /\ \E m, n \in Emitted :
       /\ rawNodes[m].layoutSizingHorizontal = Some("HUG")
       /\ \E c \in NodeIds : rawNodes[c].par = m
       /\ Len(ChildItems(altNodes[m])) = 0
       /\ altNodes[m].layoutSizingHorizontal = Some("FIXED")
       /\ rawNodes[n].layoutSizingHorizontal = Some("HUG")
       /\ Len(ChildItems(altNodes[n])) > 0
       /\ altNodes[n].layoutSizingHorizontal = Some("HUG")

ParentFlattened(n) ==
  rawNodes[n].par # 0 /\ altNodes[rawNodes[n].par].canBeFlattened

NearSquare(w, h) == 2 * Abs(w - h) <= Max(w, h)

RECURSIVE HasVectorDescendant(_)
HasVectorDescendant(n) ==
  \E c \in NodeIds :
     /\ rawNodes[c].par = n
     /\ rawNodes[c].type = "VECTOR" \/ HasVectorDescendant(c)

\* C9 as claimed: with embedding enabled under a parent that is not
\* flattened, a node of at most 48 x 48 that is near-square is flagged
\* canBeFlattened, and a node with a dimension above 48 is flagged exactly
\* when it contains a VECTOR descendant.
C9_LargeNodeWithVectorFlagged ==
  \A n \in DOMAIN altNodes :
     (settings.embedVectors /\ ~ParentFlattened(n) /\ rawNodes[n].hasBox) =>
       LET w == rawNodes[n].width
           h == rawNodes[n].height
       IN /\ (w <= 48 /\ h <= 48 /\ NearSquare(w, h))
               => altNodes[n].canBeFlattened
          /\ (w > 48 \/ h > 48)
               => (altNodes[n].canBeFlattened <=> HasVectorDescendant(n))

\* C9 amended: with embedding enabled under a parent that is not flattened,
\* a node whose width and height are non-zero, at most 48 and near-square is
\* flagged canBeFlattened; a node with a dimension above 48 is not flagged,
\* VECTOR children or not, unless it is itself a VECTOR with path geometry.
C9_IconHeuristicBoundary ==
  \A n \in DOMAIN altNodes :
     (settings.embedVectors /\ ~ParentFlattened(n) /\ rawNodes[n].hasBox) =>
       LET w == rawNodes[n].width
           h == rawNodes[n].height
       IN /\ (w # 0 /\ h # 0 /\ w <= 48 /\ h <= 48 /\ NearSquare(w, h))
               => altNodes[n].canBeFlattened
          /\ (w > 48 \/ h > 48)
               => (altNodes[n].canBeFlattened <=>
                     (rawNodes[n].type = "VECTOR"
                      /\ Len(rawNodes[n].fillGeometry) > 0))

\* a 49 x 49 frame with a VECTOR child is not flagged while its 48 x 48
\* child is
C9_Witness ==
  /\ settings.embedVectors
  /\ \E n, v, m \in DOMAIN altNodes :
       /\ rawNodes[n].hasBox /\ rawNodes[n].width = 49
       /\ rawNodes[v].par = n /\ rawNodes[v].type = "VECTOR"
       /\ ~altNodes[n].canBeFlattened
       /\ rawNodes[m].par = n /\ rawNodes[m].width = 48
       /\ rawNodes[m].height = 48 /\ altNodes[m].canBeFlattened

\* C10 as claimed: every emitted node has a defined value for each of the
\* thirteen layout fields, itemSpacing, primaryAxisSizingMode and
\* counterAxisSizingMode included.
C10_AllLayoutFieldsDefined ==
  \A n \in Emitted :
     LET a == altNodes[n]
     IN /\ a.layoutMode # Undefined
        /\ a.layoutSizingHorizontal # Undefined
        /\ a.layoutSizingVertical # Undefined
        /\ a.layoutGrow # Undefined
        /\ a.primaryAxisAlignItems # Undefined
        /\ a.counterAxisAlignItems # Undefined
        /\ a.paddingLeft # Undefined /\ a.paddingRight # Undefined
        /\ a.paddingTop # Undefined /\ a.paddingBottom # Undefined
        /\ a.itemSpacing # Undefined
        /\ a.primaryAxisSizingMode # Undefined
        /\ a.counterAxisSizingMode # Undefined

\* C10 amended: every emitted node has a defined value for layoutMode, both
\* sizing axes, layoutGrow, both alignments and the four paddings, also when
\* the raw node has none of them; itemSpacing, primaryAxisSizingMode and
\* counterAxisSizingMode are copied and are undefined when the raw node has
\* none.
C10_DefaultedLayoutFieldsDefined ==
  \A n \in Emitted :
     LET a == altNodes[n]
     IN /\ a.layoutMode # Undefined
        /\ a.layoutSizingHorizontal # Undefined
        /\ a.layoutSizingVertical # Undefined
        /\ a.layoutGrow # Undefined
        /\ a.primaryAxisAlignItems # Undefined
        /\ a.counterAxisAlignItems # Undefined
        /\ a.paddingLeft # Undefined /\ a.paddingRight # Undefined
        /\ a.paddingTop # Undefined /\ a.paddingBottom # Undefined
        /\ a.itemSpacing = rawNodes[n].itemSpacing
        /\ a.primaryAxisSizingMode = rawNodes[n].primaryAxisSizingMode
        /\ a.counterAxisSizingMode = rawNodes[n].counterAxisSizingMode

\* a node without any raw layout field is emitted next to one that has them
C10_Witness ==
  /\ pc = "done"
  /\ \E m, n \in Emitted :
       /\ rawNodes[m].layoutMode = Undefined
       /\ rawNodes[m].paddingLeft = Undefined
       /\ rawNodes[m].itemSpacing = Undefined
       /\ altNodes[m].layoutMode = Some("NONE")
       /\ altNodes[m].itemSpacing = Undefined
       /\ rawNodes[n].itemSpacing = Some(0)
       /\ altNodes[n].layoutMode = Some("HORIZONTAL")

\* C11: every emitted node with canBeFlattened = true carries an svg string
\* synthesized from its own path geometry or from that of its VECTOR
\* children; no node is emitted flagged and without svg.
C11_FlattenedCarriesSvg ==
  \A n \in Emitted :
     altNodes[n].canBeFlattened => altNodes[n].svg # Undefined

\* flagged by the icon heuristic, not as a VECTOR with its own geometry
FlaggedByHeuristic(n) ==
  /\ altNodes[n].canBeFlattened
  /\ ~(rawNodes[n].type = "VECTOR" /\ HasGeometry(rawNodes[n]))

\* C12: flattening does not nest: no emitted node flagged canBeFlattened by
\* the icon heuristic has an emitted ancestor that the heuristic flagged
\* too, so on every path from a root to a leaf at most one node is flagged,
\* VECTOR nodes with their own path geometry excepted.
C12_FlatteningDoesNotNest ==
  \A n \in Emitted :
     FlaggedByHeuristic(n) =>
       \A a \in Ancestors(n) \cap Emitted : ~FlaggedByHeuristic(a)

DocumentsOf(entries) ==
  LET with == SelectSeq(entries, LAMBDA w : w.isObject /\ w.document # Undefined)
  IN [k \in 1..Len(with) |-> Val(with[k].document)]

\* the same, a wrapper without document but with an id standing for itself
DocumentsOrNodesOf(entries) ==
  LET with == SelectSeq(entries,
                 LAMBDA w : w.isObject /\ (w.document # Undefined \/ w.hasId))
  IN [k \in 1..Len(with) |->
        IF with[k].document # Undefined THEN Val(with[k].document)
        ELSE with[k].self]

\* what each shape yields for a payload
YieldA(fd) ==
  IF fd.kind = "object" /\ fd.data.isObject
  THEN DocumentsOf(fd.data.document.entries) ELSE <<>>
YieldB(fd) ==
  IF fd.kind = "object" THEN DocumentsOrNodesOf(fd.document.entries) ELSE <<>>
YieldC(fd) == IF fd.kind = "array" THEN fd.items ELSE <<>>
YieldD(fd) == IF fd.kind = "object" /\ fd.hasId THEN <<fd.self>> ELSE <<>>

Extracted == convert.at \in {"extracted", "returned"}

\* C14 as claimed: the shapes are tried in the order (a) data.document, (b)
\* document, (c) node list, (d) single node, and the result is what the
\* first shape that yields any node yields; when no envelope shape yields a
\* node and the payload is an object with an id, the payload is the result.
C14_FirstShapeThatYields ==
  Extracted =>
    LET fd == convert.figmaData
    IN convert.rawNodes =
         (IF YieldA(fd) # <<>> THEN YieldA(fd)
          ELSE IF YieldB(fd) # <<>> THEN YieldB(fd)
          ELSE IF YieldC(fd) # <<>> THEN YieldC(fd)
          ELSE YieldD(fd))

\* C14 amended: the shape is chosen by the first key that is present, in the
\* order data.document, document, array, and the result is what that one
\* shape yields, nothing included: (a) the document of each wrapper, (b) the
\* document of each wrapper or the wrapper itself when it is an object with
\* an id, (c) the entries of the array as they are; only a payload with
\* neither key that is no array is taken as a single node when it is an
\* object with an id, and yields nothing otherwise.
C14_FirstShapePresent ==
  Extracted =>
    LET fd == convert.figmaData
        a == fd.kind = "object" /\ fd.data.isObject /\ fd.data.document.truthy
        b == fd.kind = "object" /\ fd.document.truthy
    IN /\ a => convert.rawNodes = YieldA(fd)
       /\ (~a /\ b) => convert.rawNodes = YieldB(fd)
       /\ (~a /\ ~b /\ fd.kind = "array") => convert.rawNodes = fd.items
       /\ (~a /\ ~b /\ fd.kind # "array") => convert.rawNodes = YieldD(fd)

\* data.document is present and yields nothing while the document key holds
\* a node: the result is empty
C14_Witness ==
  /\ Extracted
  /\ HasDataDocument(convert.figmaData)
  /\ YieldB(convert.figmaData) # <<>>
  /\ convert.figmaData.hasId
  /\ convert.rawNodes = <<>>

\* a payload of none of the recognized shapes
Unrecognized(fd) ==
  \/ fd.kind \in {"undefined", "null", "primitive"}
  \/ /\ fd.kind = "object" /\ ~fd.hasId
     /\ ~(fd.data.isObject /\ fd.data.document.truthy)
     /\ ~fd.document.truthy

\* null, undefined, or a falsy primitive
Falsy(fd) ==
  fd.kind \in {"undefined", "null"} \/ (fd.kind = "primitive" /\ ~fd.truthy)

\* C15 as claimed: for a payload of none of the recognized shapes the
\* extraction returns an empty list, and the convert endpoint (the request
\* being valid otherwise) answers 400 with the 'No valid nodes' error.
C15_UnrecognizedAnswersNoValidNodes ==
  (Unrecognized(convert.figmaData) /\ convert.hasFramework) =>
    /\ Extracted => convert.rawNodes = <<>>
    /\ convert.at # "processing"
    /\ convert.at = "responded" =>
         /\ convert.status = 400
         /\ convert.error = "No valid nodes found in figmaData"

\* C15 amended: for a payload of none of the recognized shapes the
\* extraction returns an empty list and the convert endpoint never goes on
\* to process; it answers 400, with 'figmaData is required' for a falsy
\* payload (null, undefined, 0, "", false), which it rejects before
\* extracting, and with 'No valid nodes found in figmaData' otherwise.
C15_UnrecognizedAnswers400 ==
  (Unrecognized(convert.figmaData) /\ convert.hasFramework) =>
    /\ Extracted => convert.rawNodes = <<>>
    /\ convert.at # "processing"
    /\ convert.at = "responded" =>
         /\ convert.status = 400
         /\ convert.error =
              (IF Falsy(convert.figmaData) THEN "figmaData is required"
               ELSE "No valid nodes found in figmaData")

\* an object without data.document, document or id was answered with 400
C15_Witness ==
  /\ convert.at = "responded"
  /\ convert.figmaData.kind = "object"
  /\ Unrecognized(convert.figmaData) /\ convert.hasFramework
  /\ convert.status = 400
  /\ convert.error = "No valid nodes found in figmaData"

\* trim(name) or "unnamed"
TrimmedOrUnnamed(n) ==
  IF rawNodes[n].nameKind # "string" THEN "unnamed"
  ELSE IF trim(rawNodes[n].name) = "" THEN "unnamed"
  ELSE trim(rawNodes[n].name)

\* raw node m gets as far as step 2: it is an object with an id, visible,
\* not consumed, its name can be trimmed, and the children loop of its
\* parent reaches it (the parent got past step 9 and no null entry stands
\* before m among its children)
RECURSIVE ReachesNaming(_)
ReachesNaming(m) ==
  LET p == rawNodes[m].par
  IN /\ ~rawNodes[m].isNull /\ rawNodes[m].hasId /\ rawNodes[m].visible
     /\ ~rawNodes[m].flattenedIntoParent
     /\ ~NameThrows(rawNodes[m])
     /\ p # 0 =>
          /\ ReachesNaming(p)
          /\ ~ThrowsAfterNaming(rawNodes, altNodes, p, settings)
          /\ \A s \in NodeIds :
                (rawNodes[s].par = p /\ s < m) => ~rawNodes[s].isNull

TwoDigits(k) == IF k < 10 THEN "0" \o toString(k) ELSE toString(k)

\* C16: the uniqueName of every node that reaches naming is its baseName
\* (trim(name) or 'unnamed') when no node earlier in depth-first pre-order
\* over all roots of the call reached naming with that baseName, and
\* otherwise baseName, '_' and the number of such earlier nodes in two
\* digits; the count runs over all parents and roots and is never reset.
C16_UniqueNameCountsEarlierNodes ==
  \A n \in DOMAIN altNodes :
     LET b == TrimmedOrUnnamed(n)
         k == Cardinality({ m \in 1..(n - 1) :
                              ReachesNaming(m) /\ TrimmedOrUnnamed(m) = b })
     IN altNodes[n].uniqueName =
          (IF k = 0 THEN b ELSE b \o "_" \o TwoDigits(k))

\* a child named " A " under the second root is A_01 after the first root
\* "A", and a node without name follows an empty-named one as unnamed_01
C16_Witness ==
  /\ pc = "done"
  /\ \E m, n \in Emitted :
       /\ rawNodes[m].par = 0 /\ rawNodes[m].name = "A"
       /\ rawNodes[n].par # 0 /\ m \notin Ancestors(n)
       /\ rawNodes[n].name = " A "
       /\ altNodes[m].uniqueName = "A"
       /\ altNodes[n].uniqueName = "A_01"
       /\ altNodes[rawNodes[n].par].uniqueName = "unnamed"

\* the raw children array of n is not empty
HasRawChildren(n) == \E c \in NodeIds : rawNodes[c].par = n

\* the list of n holds a child positioned absolutely
HasAbsoluteChild(n) ==
  \E k \in 1..Len(ChildItems(altNodes[n])) :
     altNodes[ChildItems(altNodes[n])[k]].layoutPositioning = Some("ABSOLUTE")

\* C13 as claimed: isRelative is true on every emitted node whose layoutMode
\* is NONE or that has a processed child with layoutPositioning ABSOLUTE,
\* children or not.
C13_RelativeWithOrWithoutChildren ==
  \A n \in Emitted :
     (altNodes[n].layoutMode = Some("NONE") \/ HasAbsoluteChild(n))
       => altNodes[n].isRelative

\* C13 amended: isRelative is true on exactly the emitted nodes whose raw
\* children array is not empty and whose layoutMode is NONE or whose list
\* holds a child with layoutPositioning ABSOLUTE; a node without raw
\* children does not get the flag, whatever its layoutMode.
C13_RelativeOnlyWithRawChildren ==
  \A n \in Emitted :
     altNodes[n].isRelative <=>
       /\ HasRawChildren(n)
       /\ altNodes[n].layoutMode = Some("NONE") \/ HasAbsoluteChild(n)

\* an auto-layout frame is relative through its absolutely positioned child,
\* next to a childless frame with layoutMode NONE that is not flagged
C13_Witness ==
  /\ pc = "done"
  /\ \E n, m \in Emitted :
       /\ altNodes[n].layoutMode # Some("NONE")
       /\ HasAbsoluteChild(n) /\ altNodes[n].isRelative
       /\ ~HasRawChildren(m) /\ altNodes[m].layoutMode = Some("NONE")
       /\ ~altNodes[m].isRelative

\* C17: a node with an absolute bounding box whose parent has one too gets
\* x and y as the difference of the two boxes' origins; a root with a box
\* gets x = y = 0 whatever its offset; width and height are those of the
\* box; a node without a box gets no x, y, width or height.
C17_PositionRelativeToParentBox ==
  \A n \in DOMAIN altNodes :
     LET raw == rawNodes[n]
         p == raw.par
         a == altNodes[n]
     IN /\ (raw.hasBox /\ p # 0 /\ rawNodes[p].hasBox) =>
             /\ a.x = Some(raw.x - rawNodes[p].x)
             /\ a.y = Some(raw.y - rawNodes[p].y)
        /\ (raw.hasBox /\ p = 0) => a.x = Some(0) /\ a.y = Some(0)
        /\ raw.hasBox => a.width = Some(raw.width) /\ a.height = Some(raw.height)
        /\ ~raw.hasBox =>
             /\ a.x = Undefined /\ a.y = Undefined
             /\ a.width = Undefined /\ a.height = Undefined

\* a child with its box at (60, 70) under a root with its box at (50, 50)
\* has x = 10 and y = 20, the root x = y = 0
C17_Witness ==
  \E n, c \in Emitted :
     /\ rawNodes[n].par = 0 /\ rawNodes[n].hasBox
     /\ rawNodes[n].x = 50 /\ rawNodes[n].y = 50
     /\ altNodes[n].x = Some(0) /\ altNodes[n].y = Some(0)
     /\ rawNodes[c].par = n /\ rawNodes[c].x = 60 /\ rawNodes[c].y = 70
     /\ altNodes[c].x = Some(10) /\ altNodes[c].y = Some(20)
     /\ altNodes[c].width = Some(100)

RECURSIVE EmittedUnderIn(_, _)
EmittedUnderIn(alts, n) ==
  {n} \cup UNION { EmittedUnderIn(alts, ChildItems(alts[n])[k]) :
                     k \in 1..Len(ChildItems(alts[n])) }

\* the nodes emitted by a call that resolved with the list out
EmittedIn(alts, out) ==
  UNION { EmittedUnderIn(alts, out[k]) : k \in 1..Len(out) }

\* C18: normalizing the same raw input twice with identical settings yields
\* the same emitted nodes, the same nodes among them carrying svg, and for
\* every emitted node the same svg markup, character by character.
C18_SecondRunSameSvg ==
  (firstRun # NoRun /\ pc \in {"done", "rejected"}) =>
    LET first == Val(firstRun)
    IN /\ pc = first.pc
       /\ Emitted = EmittedIn(first.altNodes, first.processedNodes)
       /\ \A n \in Emitted : altNodes[n].svg = first.altNodes[n].svg

\* the second call is over, and a frame whose VECTOR child was consumed by
\* the first call carries the markup again
C18_Witness ==
  /\ firstRun # NoRun /\ pc = "done"
  /\ \E n \in Emitted, c \in NodeIds :
       /\ rawNodes[c].par = n /\ rawNodes[c].flattenedIntoParent
       /\ altNodes[n].svg # Undefined
       /\ Val(firstRun).altNodes[n].svg = altNodes[n].svg
       /\ c \notin EmittedIn(Val(firstRun).altNodes, Val(firstRun).processedNodes)

\* the immediate VECTOR children of n that have path geometry, in order
VectorChildrenWithGeometry(n) ==
  SelectSeq(Children(n),
            LAMBDA c : /\ rawNodes[c].type = "VECTOR"
                       /\ Len(rawNodes[c].fillGeometry) > 0)

\* the colour of the first visible solid fill of c, black without one
FirstVisibleSolidColor(c) ==
  LET fills == rawNodes[c].fills
      first == { k \in 1..Len(fills) :
                   /\ fills[k].type = "SOLID" /\ fills[k].visible
                   /\ \A j \in 1..(k - 1) :
                        ~(fills[j].type = "SOLID" /\ fills[j].visible) }
  IN IF first = {} THEN "#000000"
     ELSE LET f == fills[CHOOSE k \in first : TRUE]
          IN IF f.color = Undefined THEN "#000000" ELSE hexColor(Val(f.color))

\* one path per geometry entry of each child of the list, in order
RECURSIVE PathsOfChildren(_)
PathsOfChildren(list) ==
  IF list = <<>> THEN <<>>
  ELSE LET c == Head(list)
       IN [k \in 1..Len(rawNodes[c].fillGeometry) |->
             pathElement(rawNodes[c].fillGeometry[k], FirstVisibleSolidColor(c))]
          \o PathsOfChildren(Tail(list))

\* node n took its markup from its children and its own call has returned
SvgFromChildren(n) ==
  /\ altNodes[n].canBeFlattened
  /\ Len(rawNodes[n].fillGeometry) = 0
  /\ VectorChildrenWithGeometry(n) # <<>>
  /\ Val(altNodes[n].children).processed

\* C19: a flagged node without path geometry of its own that has VECTOR
\* children with path geometry carries a markup of one path per geometry
\* entry of each such child, in child order, each path in that child's
\* first visible solid fill colour or black; exactly those children are
\* absent from the node's list, and its other visible children that are
\* processed successfully are in the list in original order.
C19_MarkupFromChildrenConsumesThem ==
  \A n \in DOMAIN altNodes :
     SvgFromChildren(n) =>
       LET items == ChildItems(altNodes[n])
       IN /\ altNodes[n].svg =
               Some(svgElement(altNodes[n].width, altNodes[n].height,
                               PathsOfChildren(VectorChildrenWithGeometry(n))))
          /\ \A c \in NodeIds :
                rawNodes[c].par = n =>
                  IF InList(c, VectorChildrenWithGeometry(n))
                  THEN ~InList(c, items)
                  ELSE (/\ ~rawNodes[c].isNull /\ rawNodes[c].hasId
                        /\ rawNodes[c].visible /\ ~NameThrows(rawNodes[c])
                        /\ ~HasNullChild(c) /\ rawNodes[c].type # "GROUP")
                         => InList(c, items)
          /\ IsIncreasing(items)

\* a frame took a red path from its first child and two paths in the colour
\* of the second solid fill from a later child, and kept the VECTOR without
\* geometry that stands between them
C19_Witness ==
  /\ pc = "done"
  /\ \E n \in Emitted :
       /\ SvgFromChildren(n)
       /\ \E c, d \in NodeIds :
            /\ rawNodes[c].par = n /\ rawNodes[d].par = n /\ c < d
            /\ rawNodes[c].type = "VECTOR" /\ rawNodes[d].type = "VECTOR"
            /\ Len(rawNodes[c].fillGeometry) = 2
            /\ FirstVisibleSolidColor(c) = "#0080ff"
            /\ Len(rawNodes[d].fillGeometry) = 0
            /\ ChildItems(altNodes[n]) = <<d>>

\* the visible ones among the VECTOR children of n that have path geometry
VisibleVectorChildren(n) ==
  SelectSeq(VectorChildrenWithGeometry(n), LAMBDA c : rawNodes[c].visible)

\* C27: a VECTOR child with visible === false contributes nothing to the
\* output: the markup an emitted flagged node without geometry of its own
\* takes from its children holds the paths of its visible VECTOR children only, and
\* there is no markup when none of them is visible.
C27_InvisibleVectorNotInMarkup ==
  \A n \in Emitted :
     (altNodes[n].canBeFlattened /\ Len(rawNodes[n].fillGeometry) = 0) =>
       altNodes[n].svg =
         (IF VisibleVectorChildren(n) = <<>> THEN Undefined
          ELSE Some(svgElement(altNodes[n].width, altNodes[n].height,
                               PathsOfChildren(VisibleVectorChildren(n)))))

\* raw node p and its ancestors are objects with an id, visible, and named
\* by a string or not at all
Processable(p) ==
  \A a \in {p} \cup Ancestors(p) :
     /\ ~rawNodes[a].isNull /\ rawNodes[a].hasId /\ rawNodes[a].visible
     /\ ~NameThrows(rawNodes[a])

\* C28: a null or undefined entry in a raw node's children array causes only
\* that entry to be omitted: the parent is still emitted, and its other
\* children that are processed successfully are in its list in order.
C28_NullChildOnlyOmitted ==
  pc = "done" =>
    \A c \in NodeIds :
       LET p == rawNodes[c].par
       IN (/\ rawNodes[c].isNull /\ p # 0
           /\ Processable(p) /\ rawNodes[p].type # "GROUP") =>
            /\ p \in Emitted
            /\ \A s \in NodeIds :
                 (/\ rawNodes[s].par = p /\ Succeeds(s)
                  /\ rawNodes[s].type # "GROUP") => InList(s, ListOf(p))
            /\ IsIncreasing(ListOf(p))

\* the base name followed by the suffix of rank k (none for rank 0)
Suffixed(b, k) == IF k = 0 THEN b ELSE b \o "_" \o TwoDigits(k)

\* the nodes before n in document order with the base name of n
EmittedBefore(n) ==
  { m \in Emitted : m < n /\ TrimmedOrUnnamed(m) = TrimmedOrUnnamed(n) }

\* those that reached naming and are not in the output: inlined GROUPs and
\* nodes dropped by a failure after they were named
NamedNotEmittedBefore(n) ==
  { m \in NodeIds \ Emitted :
      /\ m < n /\ ReachesNaming(m)
      /\ TrimmedOrUnnamed(m) = TrimmedOrUnnamed(n) }

\* C29 as claimed: among the emitted nodes of one base name the first in
\* document order carries the bare base name and the later ones the suffixes
\* 01, 02, ... without gaps; nodes that are not emitted take no suffix.
C29_EmittedSuffixesWithoutGaps ==
  pc = "done" =>
    \A n \in Emitted :
       altNodes[n].uniqueName =
         Suffixed(TrimmedOrUnnamed(n), Cardinality(EmittedBefore(n)))

\* C29 amended: the rank of an emitted node's name is the number of earlier
\* nodes of its base name that reached naming, emitted or not: every inlined
\* GROUP and every node dropped after naming takes one suffix away, so the
\* emitted names of a base name have no gaps (and start bare) only when no
\* such node precedes them.
C29_SuffixesCountNamedNodes ==
  pc = "done" =>
    \A n \in Emitted :
       altNodes[n].uniqueName =
         Suffixed(TrimmedOrUnnamed(n),
                  Cardinality(EmittedBefore(n))
                    + Cardinality(NamedNotEmittedBefore(n)))

\* a GROUP named "A" took the bare name: its child, the first emitted node
\* of that base name, is A_01
C29_Witness ==
  /\ pc = "done"
  /\ \E g, c \in NodeIds :
       /\ rawNodes[g].type = "GROUP" /\ rawNodes[c].par = g
       /\ c \in Emitted /\ EmittedBefore(c) = {}
       /\ NamedNotEmittedBefore(c) = {g}
       /\ altNodes[c].uniqueName = "A_01"

\* C30: every node N in the children list of an emitted node M has M as its
\* parent, and when both have a bounding box the x and y of N are the
\* difference of the origins of the two boxes, also when N came into the
\* list of M by the inlining of a GROUP.
C30_ListedChildRelativeToListOwner ==
  \A m \in Emitted :
     \A k \in 1..Len(ChildItems(altNodes[m])) :
        LET n == ChildItems(altNodes[m])[k]
        IN /\ altNodes[n].parent = m
           /\ (rawNodes[n].hasBox /\ rawNodes[m].hasBox) =>
                /\ altNodes[n].x = Some(rawNodes[n].x - rawNodes[m].x)
                /\ altNodes[n].y = Some(rawNodes[n].y - rawNodes[m].y)

-----------------------------------------------------------------------------
(* Image fills                                                             *)

\* an IMAGE fill as it reaches processRawNode: with the embedded data or the
\* remote URL that figma-images.ts wrote, with both (from the payload) or
\* with neither
Image(base64Url, imageUrl) ==
  [ImageFill EXCEPT !.base64Url = base64Url, !.imageUrl = imageUrl]

EmbeddedData == Some("data:image/png;base64,AAAA")
RemoteUrl == Some("https://s3-alpha.figma.com/img/1")

\* a box with a decimal in its size
Sized(node, w, wTenths, h, hTenths) ==
  [node EXCEPT !.hasBox = TRUE, !.width = w, !.widthTenths = wTenths,
               !.height = h, !.heightTenths = hTenths]

\* images: a frame of 120.5 x 80.4 with every kind of fill, a frame without a
\* box, a GROUP of width 0, a frame of 0.4 x 9.5
ImageNodes ==
  { PlainNode,
    Sized([PlainNode EXCEPT !.fills =
             << Image(EmbeddedData, RemoteUrl), Image(Undefined, RemoteUrl),
                Image(Undefined, Undefined), SolidFill(100, 0, 0, TRUE) >>],
          120, 5, 80, 4),
    [PlainNode EXCEPT !.fills = << Image(Undefined, Undefined),
                                   Image(Some(""), RemoteUrl),
                                   Image(EmbeddedData, Undefined) >>],
    Sized([PlainNode EXCEPT !.type = "GROUP",
                            !.fills = <<Image(Undefined, Undefined)>>],
          0, 0, 50, 0),
    Sized([PlainNode EXCEPT !.fills = <<Image(Undefined, Some(""))>>],
          0, 4, 9, 5),
    NullEntry, InvisibleNode, NumericNameNode }

InitImage == InitWith(ImageNodes, {NoSettings}, {FALSE})

SpecImage == InitImage /\ [][Next]_vars

\* the rounded size of the box of n along one axis, none without a box
RoundedSize(n, axis) ==
  LET raw == rawNodes[n]
      whole == IF axis = "width" THEN raw.width ELSE raw.height
      tenths == IF axis = "width" THEN raw.widthTenths ELSE raw.heightTenths
  IN IF ~raw.hasBox THEN Undefined
     ELSE Some(IF tenths >= 5 THEN whole + 1 ELSE whole)

\* the box of n has a size other than 0 along the axis
HasSize(n, axis) ==
  /\ rawNodes[n].hasBox
  /\ IF axis = "width"
     THEN rawNodes[n].width # 0 \/ rawNodes[n].widthTenths # 0
     ELSE rawNodes[n].height # 0 \/ rawNodes[n].heightTenths # 0

Placeholder(w, h) == "https://placehold.co/" \o w \o "x" \o h

\* C24 as claimed: every IMAGE fill of a processed node has as its resolved
\* source base64Url if present, else imageUrl if present, else the
\* placeholder URL with the node's rounded width and height; fills of other
\* types have no resolved source.
C24_ImageSourceByPriority ==
  \A n \in DOMAIN altNodes :
     \A k \in 1..Len(rawNodes[n].fills) :
        LET fill == rawNodes[n].fills[k]
        IN IF fill.type # "IMAGE" THEN fill.resolvedImageUrl = Undefined
           ELSE IF fill.base64Url # Undefined
             THEN fill.resolvedImageUrl = fill.base64Url
           ELSE IF fill.imageUrl # Undefined
             THEN fill.resolvedImageUrl = fill.imageUrl
           ELSE /\ RoundedSize(n, "width") # Undefined
                /\ fill.resolvedImageUrl =
                     Some(Placeholder(toString(Val(RoundedSize(n, "width"))),
                                      toString(Val(RoundedSize(n, "height")))))

\* C24 amended: the embedded data and the remote URL count only when they are
\* non-empty strings, and W (H) of the placeholder is the rounded width
\* (height) only when the node has a box of non-zero width (height), and 100
\* otherwise.
C24_ImageSourceByTruthiness ==
  \A n \in DOMAIN altNodes :
     \A k \in 1..Len(rawNodes[n].fills) :
        LET fill == rawNodes[n].fills[k]
            W == IF HasSize(n, "width")
                 THEN toString(Val(RoundedSize(n, "width"))) ELSE "100"
            H == IF HasSize(n, "height")
                 THEN toString(Val(RoundedSize(n, "height"))) ELSE "100"
        IN IF fill.type # "IMAGE" THEN fill.resolvedImageUrl = Undefined
           ELSE IF fill.base64Url \notin {Undefined, Some("")}
             THEN fill.resolvedImageUrl = fill.base64Url
           ELSE IF fill.imageUrl \notin {Undefined, Some("")}
             THEN fill.resolvedImageUrl = fill.imageUrl
           ELSE fill.resolvedImageUrl = Some(Placeholder(W, H))

\* a processed frame of 120.5 x 80.4 has the embedded data on its first
\* fill, the remote URL on the second, the placeholder 121x80 on the third
\* and nothing on its solid fill
C24_Witness ==
  \E n \in DOMAIN altNodes :
     /\ Len(rawNodes[n].fills) = 4
     /\ rawNodes[n].fills[1].imageUrl = RemoteUrl
     /\ rawNodes[n].fills[1].resolvedImageUrl = EmbeddedData
     /\ rawNodes[n].fills[2].resolvedImageUrl = RemoteUrl
     /\ rawNodes[n].fills[3].resolvedImageUrl =
          Some("https://placehold.co/121x80")
     /\ rawNodes[n].fills[4].type = "SOLID"
     /\ rawNodes[n].fills[4].resolvedImageUrl = Undefined

-----------------------------------------------------------------------------
(* Settings that omit embedVectors                                         *)

\* a settings object without the embedVectors field
SettingsWithoutEmbedVectors == [useColorVariables |-> FALSE]

InitOmitted == InitWith(IconNodes, {SettingsWithoutEmbedVectors}, {FALSE})

SpecOmitted == InitOmitted /\ [][Next]_vars

\* C21: when the settings omit embedVectors the conversion behaves as with
\* embedVectors = true, the documented default: an emitted VECTOR with path
\* geometry is flagged canBeFlattened and carries svg markup, and an emitted
\* root that passes the icon heuristic is flagged.
C21_OmittedEmbedVectorsMeansTrue ==
  "embedVectors" \notin DOMAIN settings =>
    \A n \in Emitted :
       /\ (rawNodes[n].type = "VECTOR" /\ Len(rawNodes[n].fillGeometry) > 0) =>
            altNodes[n].canBeFlattened /\ altNodes[n].svg # Undefined
       /\ (/\ rawNodes[n].par = 0 /\ rawNodes[n].hasBox
           /\ rawNodes[n].width = 48 /\ rawNodes[n].height = 48) =>
            altNodes[n].canBeFlattened

-----------------------------------------------------------------------------
(* A second call on the same raw objects with embedVectors switched off    *)

\* the caller passes the same rawNodes to processRawFigmaNodes once more
\* after the first call has settled, now with settings.embedVectors false:
\* the raw objects are as the first call left them
AgainWithoutVectors ==
  /\ pc \in {"done", "rejected"}
  /\ firstRun = NoRun
  /\ firstRun' = Some([altNodes |-> altNodes,
                       processedNodes |-> processedNodes, pc |-> pc])
  /\ settings' = [settings EXCEPT !.embedVectors = FALSE]
  /\ nameCounters' = <<>>
  /\ altNodes' = <<>>
  /\ stack' = <<>>
  /\ i' = 1
  /\ processedNodes' = <<>>
  /\ pc' = "start"
  /\ UNCHANGED <<rawNodes, hasFigma, nodeCache, convert, other>>

NextSwitch == Next \/ AgainWithoutVectors

\* a small frame, VECTOR children with and without geometry, defect nodes
SwitchNodes ==
  { PlainNode,
    Boxed(PlainNode, 24, 24),
    Vector(OnePath, <<SolidFill(100, 0, 0, TRUE)>>),
    Vector(<<>>, <<>>),
    NullEntry, InvisibleNode, NumericNameNode }

InitSwitch ==
  InitWith(SwitchNodes,
           {[embedVectors |-> TRUE, useColorVariables |-> FALSE]}, {FALSE})

SpecSwitch == InitSwitch /\ [][NextSwitch]_vars

\* what a call with embedVectors false emits for a never-processed copy of
\* the raw tree: the nodes other than GROUPs that are, like each of their
\* ancestors, objects with an id, visible, named by a string or not at all,
\* and without a null entry among their children
EmittedFromFreshCopy ==
  { n \in NodeIds :
      /\ rawNodes[n].type # "GROUP"
      /\ \A a \in {n} \cup Ancestors(n) :
           /\ ~rawNodes[a].isNull /\ rawNodes[a].hasId /\ rawNodes[a].visible
           /\ ~NameThrows(rawNodes[a]) /\ ~HasNullChild(a) }

\* its list for parent p (0: the top level): the emitted nodes reached from
\* p through GROUPs only, in document order
ListFromFreshCopy(p) ==
  DocOrder({ n \in EmittedFromFreshCopy :
               /\ p = 0 \/ p \in Ancestors(n)
               /\ \A a \in Ancestors(n) :
                    (a # p /\ (p = 0 \/ p \in Ancestors(a)))
                      => rawNodes[a].type = "GROUP" })

\* C26: the result depends only on the raw tree's content and the settings
\* of the call: after a call with embedVectors = true, a call on the same
\* objects with embedVectors = false emits the same nodes, with the same
\* children lists, as a call with embedVectors = false on a fresh copy.
C26_SecondCallAsOnFreshCopy ==
  (firstRun # NoRun /\ pc = "done") =>
    /\ Emitted = EmittedFromFreshCopy
    /\ \A n \in Emitted : ChildItems(altNodes[n]) = ListFromFreshCopy(n)

-----------------------------------------------------------------------------
(* Text                                                                    *)

\* a TEXT node with its string and, optionally, per-character overrides
Text(name, characters, overrides, table) ==
  [PlainNode EXCEPT !.type = "TEXT", !.name = name,
                    !.characters = characters,
                    !.characterStyleOverrides = overrides,
                    !.styleOverrideTable = table]

\* the second of two styles, bold
OverrideTable == Some(<<[fontWeight |-> 700]>>)

\* text: strings with and without overrides, an empty string with
\* overrides, a TEXT node without characters, a frame that carries
\* characters, names with blanks and capitals
TextNodes ==
  { PlainNode,
    Text("A", Some("Hi"), Undefined, Undefined),
    Text("My Label", Some("Hello"), Some(<<0, 0, 1, 1, 1>>), OverrideTable),
    Text("A", Some(""), Some(<<1>>), OverrideTable),
    Text("", Undefined, Undefined, Undefined),
    Text("", Some("x"), Some(<<1>>), OverrideTable),
    [PlainNode EXCEPT !.characters = Some("Hi"),
                      !.characterStyleOverrides = Some(<<0, 1>>)],
    NullEntry, InvisibleNode, NumericNameNode }

InitText == InitWith(TextNodes, {NoSettings}, {FALSE})

SpecText == InitText /\ [][Next]_vars

\* C22: an emitted node has styledTextSegments if and only if it is a TEXT
\* node with non-empty characters; the sequence then holds exactly one
\* segment, with start 0, end the length of characters and the node's full
\* string, whatever the per-character style-override tables are, and these
\* tables are on the emitted node as they were on the raw node.
C22_OneSegmentOverWholeString ==
  \A n \in Emitted :
     LET raw == rawNodes[n]
         a == altNodes[n]
         nonEmpty == raw.characters # Undefined /\ Len(Val(raw.characters)) > 0
     IN /\ a.styledTextSegments # Undefined <=> (raw.type = "TEXT" /\ nonEmpty)
        /\ a.styledTextSegments # Undefined =>
             /\ Len(Val(a.styledTextSegments)) = 1
             /\ Val(a.styledTextSegments)[1].start = 0
             /\ Val(a.styledTextSegments)[1].end = Len(Val(raw.characters))
             /\ Val(a.styledTextSegments)[1].characters = Val(raw.characters)
        /\ a.characterStyleOverrides = raw.characterStyleOverrides
        /\ a.styleOverrideTable = raw.styleOverrideTable

\* an emitted TEXT node "My Label" with overrides on three of its five
\* characters has the one segment mylabel_span over 0..5, next to an emitted
\* TEXT node with an empty string that has no segments
C22_Witness ==
  \E n, m \in Emitted :
     /\ rawNodes[n].type = "TEXT"
     /\ rawNodes[n].characterStyleOverrides = Some(<<0, 0, 1, 1, 1>>)
     /\ altNodes[n].styledTextSegments =
          Some(<<[characters |-> "Hello", uniqueId |-> "mylabel_span",
                  start |-> 0, end |-> 5]>>)
     /\ altNodes[n].styleOverrideTable = OverrideTable
     /\ rawNodes[m].type = "TEXT" /\ rawNodes[m].characters = Some("")
     /\ altNodes[m].styledTextSegments = Undefined

-----------------------------------------------------------------------------
(* Two calls of processRawFigmaNodes in flight, and the cache endpoint     *)

\* a call of processRawFigmaNodes(nodes, s) that has not run yet
Pending(call, nodes, s) ==
  Some([ call |-> call, rawNodes |-> nodes, settings |-> s,
         nameCounters |-> <<>>, altNodes |-> <<>>, stack |-> <<>>, i |-> 1,
         processedNodes |-> <<>>, pc |-> "start" ])

\* the two calls use one map of name counters
SwitchSharingCounters ==
  /\ other # NoCall
  /\ Val(other).pc \in {"start", "run"}
  /\ other' = Some([ call |-> CurrentCall, rawNodes |-> rawNodes,
                     settings |-> settings, nameCounters |-> nameCounters,
                     altNodes |-> altNodes, stack |-> stack, i |-> i,
                     processedNodes |-> processedNodes, pc |-> pc ])
  /\ rawNodes' = Val(other).rawNodes
  /\ settings' = Val(other).settings
  /\ altNodes' = Val(other).altNodes
  /\ stack' = Val(other).stack
  /\ i' = Val(other).i
  /\ processedNodes' = Val(other).processedNodes
  /\ pc' = Val(other).pc
  /\ UNCHANGED <<nameCounters, hasFigma, nodeCache, firstRun, convert>>

\* the running call waits at an await (lines 64 and 319) and the event loop
\* resumes the other call: the arguments and locals of the two calls
\* (rawNodes, settings, nameCounters of line 58, processedNodes, the active
\* processRawNode calls) change places, the node cache is the one of the
\* module.  Every step of a call ends at or before an await, so a switch
\* between any two steps covers every order the event loop can produce.
Switch ==
  /\ other # NoCall
  /\ Val(other).pc \in {"start", "run"}
  /\ other' = Some([ call |-> CurrentCall, rawNodes |-> rawNodes,
                     settings |-> settings, nameCounters |-> nameCounters,
                     altNodes |-> altNodes, stack |-> stack, i |-> i,
                     processedNodes |-> processedNodes, pc |-> pc ])
  /\ rawNodes' = Val(other).rawNodes
  /\ settings' = Val(other).settings
  /\ nameCounters' = Val(other).nameCounters
  /\ altNodes' = Val(other).altNodes
  /\ stack' = Val(other).stack
  /\ i' = Val(other).i
  /\ processedNodes' = Val(other).processedNodes
  /\ pc' = Val(other).pc
  /\ UNCHANGED <<hasFigma, nodeCache, firstRun, convert>>

\* POST /api/cache/clear: figma._clearNodeCache()
ClearCache ==
  /\ hasFigma
  /\ nodeCache' = <<>>
  /\ UNCHANGED <<rawNodes, settings, hasFigma, nameCounters, altNodes, stack,
                 i, processedNodes, pc, firstRun, convert, other>>

\* with global.figma installed a null entry rejects the call in Populate, so
\* the steps on null entries do not occur
NextTwoCalls ==
  \/ Populate
  \/ SkipChild
  \/ ReturnNull
  \/ Throw
  \/ Build
  \/ Return
  \/ Finish
  \/ Switch
  \/ ClearCache

\* the documents of the second call: a frame in a frame, and a frame with a
\* child named by a number and an invisible child
OtherDocuments ==
  { Document(<<PlainNode, PlainNode>>, <<0, 1>>),
    Document(<<PlainNode, NumericNameNode, InvisibleNode>>, <<0, 1, 1>>) }

\* the nodes of the first call's document: frames and GROUPs named "A"
TwoCallNodes ==
  { PlainNode, [PlainNode EXCEPT !.type = "GROUP"], InvisibleNode }

InitTwoCalls ==
  InitCalls(TwoCallNodes, {NoSettings}, {TRUE},
            { Pending(2, d, NoSettings) : d \in OtherDocuments })

SpecTwoCalls == InitTwoCalls /\ [][NextTwoCalls]_vars

\* C23: the node cache is never shared across documents: while a document is
\* being converted, a lookup by id returns only a node of that document,
\* never a node of another in-flight or previously converted document.
C23_LookupReturnsOwnNodesOnly ==
  (hasFigma /\ pc = "run") =>
    \A id \in DOMAIN nodeCache :
       Val(getNodeByIdAsync(id)).call = CurrentCall

\* trim(name) or "unnamed" of a raw node
BaseNameOf(raw) ==
  IF raw.nameKind # "string" THEN "unnamed"
  ELSE IF trim(raw.name) = "" THEN "unnamed"
  ELSE trim(raw.name)

\* node m of a call's document gets as far as step 2 of processRawNode
RECURSIVE ReachesNamingIn(_, _, _, _)
ReachesNamingIn(nodes, alts, s, m) ==
  LET p == nodes[m].par
  IN /\ ~nodes[m].isNull /\ nodes[m].hasId /\ nodes[m].visible
     /\ ~nodes[m].flattenedIntoParent
     /\ ~NameThrows(nodes[m])
     /\ p # 0 =>
          /\ ReachesNamingIn(nodes, alts, s, p)
          /\ ~ThrowsAfterNaming(nodes, alts, p, s)
          /\ \A c \in 1..Len(nodes) :
                (nodes[c].par = p /\ c < m) => ~nodes[c].isNull

\* the names a call gives when it runs alone: the base name, followed from
\* the second node on by the number of earlier nodes of the same document
\* that were named with it
NamesAsAlone(nodes, alts, s) ==
  \A n \in DOMAIN alts :
     alts[n].uniqueName =
       Suffixed(BaseNameOf(nodes[n]),
                Cardinality({ m \in 1..(n - 1) :
                                /\ ReachesNamingIn(nodes, alts, s, m)
                                /\ BaseNameOf(nodes[m]) = BaseNameOf(nodes[n]) }))

\* C25: name counters are isolated per conversion: however two calls of
\* processRawFigmaNodes interleave at their await points, the uniqueName of
\* every node of either call is the one that call assigns when it runs
\* alone; no suffix depends on the names in the other document.
C25_NamesIsolatedPerCall ==
  /\ NamesAsAlone(rawNodes, altNodes, settings)
  /\ other # NoCall =>
       NamesAsAlone(Val(other).rawNodes, Val(other).altNodes,
                    Val(other).settings)

\* both calls are under way, each has named a node "A", and the running one
\* has gone on to name its second node A_01
C25_Witness ==
  /\ other # NoCall
  /\ pc = "run" /\ Val(other).pc = "run"
  /\ \E m \in DOMAIN Val(other).altNodes :
       Val(other).altNodes[m].uniqueName = "A"
  /\ \E m, n \in DOMAIN altNodes :
       /\ altNodes[m].uniqueName = "A"
       /\ altNodes[n].uniqueName = "A_01"

====
